---------------------------- MODULE Spec2Model ----------------------------
(***************************************************************************)
(* Model of the partition engine of time-fractal-lab:                      *)
(*   - kp_keno_timedasha/run_timedasha.py : rotation of the Vimshottari    *)
(*     cycle, proportional subdivision of a time frame into nine dasha     *)
(*     segments, location of the active segment, the six nested levels     *)
(*     and the remaining time / remaining fraction of each level;          *)
(*   - kp_keno_timedasha/run_timedasha.py : sunrise, the YEAR / MONTH /    *)
(*     WEEK frames of a date and the start lord of a frame;                *)
(*   - core/astro_snapshot_engine.py : Nakshatra, Sub and SSL of a         *)
(*     longitude, the snapshot list built from a candle batch and the      *)
(*     distance to the next Sub / SSL change.                              *)
(*                                                                         *)
(* Time is counted in ticks of one microsecond, the resolution of          *)
(* datetime / timedelta.  Floats are modelled as exact rationals <<n, d>>. *)
(***************************************************************************)
EXTENDS Integers, Sequences, FiniteSets, TLC

(***************************************************************************)
(* Bounds of the model                                                     *)
(***************************************************************************)
MaxStart == 1
MaxSpan == 60
MaxCandles == 3
MaxTs == 2
MaxLon == 1

MaxTurn == 1

MaxMinute == 9

MaxYearOffset == 1

MaxCalls == 3

MaxPipeline == 3

(***************************************************************************)
(* Generic helpers                                                         *)
(***************************************************************************)
Range(s) == {s[i] : i \in DOMAIN s}

Abs(x) == IF x < 0 THEN -x ELSE x

IndexOf(s, x) == CHOOSE i \in DOMAIN s : s[i] = x /\ \A j \in 1..(i - 1) : s[j] # x

\* A float value is modelled by the exact rational n / d, d > 0.
Rat(n, d) == <<n, d>>
RatEq(a, b) == a[1] * b[2] = b[1] * a[2]
RatLt(a, b) == a[1] * b[2] < b[1] * a[2]

\* An Optional value: None, or Some(x) holding x.
None == <<>>
Some(x) == <<x>>

(***************************************************************************)
(* run_timedasha.py : Vimshottari constants                                *)
(***************************************************************************)
DASHA_ORDER ==
    <<"KETU", "VENUS", "SUN", "MOON", "MARS", "RAHU", "JUPITER", "SATURN", "MERCURY">>

DASHA_YEARS ==
    [l \in Range(DASHA_ORDER) |->
        CASE l = "KETU" -> 7
          [] l = "VENUS" -> 20
          [] l = "SUN" -> 6
          [] l = "MOON" -> 10
          [] l = "MARS" -> 7
          [] l = "RAHU" -> 18
          [] l = "JUPITER" -> 16
          [] l = "SATURN" -> 19
          [] l = "MERCURY" -> 17]

TOTAL_YEARS == 120

LevelNames == <<"MAHA", "ANTAR", "PRATY", "SOOK", "SUB", "PRANA">>

(***************************************************************************)
(* rotate_order_to: ValueError for a lord outside DASHA_ORDER, otherwise   *)
(* DASHA_ORDER[idx:] + DASHA_ORDER[:idx].                                  *)
(***************************************************************************)
rotate_order_to_default(start_lord) ==
    LET l == IF start_lord \in Range(DASHA_ORDER) THEN start_lord ELSE "KETU"
        idx == IndexOf(DASHA_ORDER, l)
    IN  SubSeq(DASHA_ORDER, idx, Len(DASHA_ORDER)) \o SubSeq(DASHA_ORDER, 1, idx - 1)

rotate_order_to(start_lord) ==
    IF start_lord \notin Range(DASHA_ORDER)
    THEN "ValueError"
    ELSE LET idx == IndexOf(DASHA_ORDER, start_lord)
         IN  SubSeq(DASHA_ORDER, idx, Len(DASHA_ORDER)) \o SubSeq(DASHA_ORDER, 1, idx - 1)

\* What a call of rotate_order_to leaves in the module tables: the result is
\* built from two slices, which are new lists, so DASHA_ORDER is untouched.
tables_after_rotate_in_place(module_tables, start_lord) ==
    IF start_lord \notin Range(DASHA_ORDER)
    THEN module_tables
    ELSE [module_tables EXCEPT !.order = rotate_order_to(start_lord)]

tables_after_rotate_order_to(module_tables, start_lord) == module_tables

(***************************************************************************)
(* timedelta(seconds = total_seconds * (years / 120.0)) in microseconds.   *)
(* timedelta rounds the float product to the nearest microsecond, ties to  *)
(* even.  The product is a binary double: when the exact value lies        *)
(* exactly half-way between two microseconds the double may fall on the    *)
(* other side of the tie.  FloatTieOdd lists the (|span|, years) pairs,    *)
(* |span| <= 135, for which IEEE-754 double arithmetic does so.            *)
(***************************************************************************)
FloatTieOdd ==
    { <<10, 6>>, <<21, 20>>, <<42, 10>>, <<69, 20>>, <<93, 20>>, <<129, 20>>,
      <<130, 18>> }

RoundHalfEven(n, d) ==
    LET q == n \div d
        r == n % d
    IN  IF 2 * r > d \/ (2 * r = d /\ q % 2 = 1) THEN q + 1 ELSE q

RoundHalfOdd(n, d) ==
    LET q == n \div d
        r == n % d
    IN  IF 2 * r > d \/ (2 * r = d /\ q % 2 = 0) THEN q + 1 ELSE q

duration_micros_floor(total, years) == (total * years) \div TOTAL_YEARS

duration_micros(total, years) ==
    IF <<Abs(total), years>> \in FloatTieOdd
    THEN RoundHalfOdd(total * years, TOTAL_YEARS)
    ELSE RoundHalfEven(total * years, TOTAL_YEARS)

(***************************************************************************)
(* The loop shared by build_maha_segments and build_sub_segments:          *)
(* consecutive segments in the given order, the last end forced to the     *)
(* parent's end.                                                           *)
(***************************************************************************)
RECURSIVE segment_append(_, _, _, _)
segment_append(order, total, current, i) ==
    IF i > Len(order)
    THEN <<>>
    ELSE LET seg_start == current
             seg_end == seg_start + duration_micros(total, DASHA_YEARS[order[i]])
         IN  <<[lord |-> order[i], start |-> seg_start, end |-> seg_end]>>
                 \o segment_append(order, total, seg_end, i + 1)

segment_loop_nosnap(order, parent_start, parent_end) ==
    segment_append(order, parent_end - parent_start, parent_start, 1)

segment_loop(order, parent_start, parent_end) ==
    LET segments == segment_append(order, parent_end - parent_start, parent_start, 1)
    IN  [segments EXCEPT ![Len(segments)].end = parent_end]

build_maha_segments_unrotated(frame_start_, frame_end_, start_lord_) ==
    segment_loop(DASHA_ORDER, frame_start_, frame_end_)

build_maha_segments(frame_start_, frame_end_, start_lord_) ==
    segment_loop(rotate_order_to(start_lord_), frame_start_, frame_end_)

build_sub_segments(parent_start, parent_end) ==
    segment_loop(DASHA_ORDER, parent_start, parent_end)

(***************************************************************************)
(* find_interval: the first segment with start <= t < end, otherwise the   *)
(* last segment.                                                           *)
(***************************************************************************)
find_interval_index_closed(segments, t) ==
    LET hits == {i \in DOMAIN segments : segments[i].start <= t /\ t <= segments[i].end}
    IN  IF hits # {}
        THEN CHOOSE i \in hits : \A j \in hits : i <= j
        ELSE Len(segments)

find_interval_index_first(segments, t) ==
    LET hits == {i \in DOMAIN segments : segments[i].start <= t /\ t < segments[i].end}
    IN  IF hits # {}
        THEN CHOOSE i \in hits : \A j \in hits : i <= j
        ELSE 1

find_interval_index(segments, t) ==
    LET hits == {i \in DOMAIN segments : segments[i].start <= t /\ t < segments[i].end}
    IN  IF hits # {}
        THEN CHOOSE i \in hits : \A j \in hits : i <= j
        ELSE Len(segments)

find_interval(segments, t) == segments[find_interval_index(segments, t)]

(***************************************************************************)
(* compute_active_vimshottari_levels, lines 338-368: the segment list of   *)
(* each level.  MAHA subdivides the frame; every later level subdivides    *)
(* the active segment of the level before it.                              *)
(***************************************************************************)
RECURSIVE level_segments_of(_, _, _, _, _)
level_segments_of(k, fs, fe, t, lord) ==
    IF k = 1
    THEN <<build_maha_segments(fs, fe, lord)>>
    ELSE LET above == level_segments_of(k - 1, fs, fe, t, lord)
             parent == find_interval(above[k - 1], t)
         IN  Append(above, build_sub_segments(parent.start, parent.end))

(***************************************************************************)
(* compute_active_vimshottari_levels, lines 371-391: duration, remaining   *)
(* and remaining_fraction added to the active segment of a level.          *)
(***************************************************************************)
level_info_unclamped(seg, t) ==
    LET total == seg.end - seg.start
        remaining == seg.end - t
    IN  [lord |-> seg.lord, start |-> seg.start, end |-> seg.end,
         duration |-> total,
         remaining |-> remaining,
         remaining_fraction |-> IF total <= 0 THEN Rat(0, 1) ELSE Rat(remaining, total)]

level_info_elapsed(seg, t) ==
    LET total == seg.end - seg.start
        elapsed == IF t - seg.start < 0 THEN 0 ELSE t - seg.start
    IN  [lord |-> seg.lord, start |-> seg.start, end |-> seg.end,
         duration |-> total,
         remaining |-> IF seg.end - t < 0 THEN 0 ELSE seg.end - t,
         remaining_fraction |->
            IF total <= 0 THEN Rat(0, 1)
            ELSE IF elapsed > total THEN Rat(1, 1) ELSE Rat(elapsed, total)]

level_info(seg, t) ==
    LET total == seg.end - seg.start
        remaining == IF seg.end - t < 0 THEN 0 ELSE seg.end - t
    IN  [lord |-> seg.lord, start |-> seg.start, end |-> seg.end,
         duration |-> total,
         remaining |-> remaining,
         remaining_fraction |->
            IF total <= 0
            THEN Rat(0, 1)
            ELSE IF RatLt(Rat(remaining, total), Rat(0, 1)) THEN Rat(0, 1)
                 ELSE IF RatLt(Rat(1, 1), Rat(remaining, total)) THEN Rat(1, 1)
                 ELSE Rat(remaining, total)]

compute_active_vimshottari_levels(fs, fe, t, lord) ==
    LET segs == level_segments_of(Len(LevelNames), fs, fe, t, lord)
    IN  [segments |-> segs,
         levels |-> [k \in 1..Len(LevelNames) |-> level_info(find_interval(segs[k], t), t)]]

(***************************************************************************)
(* run_timedasha.py : sunrise and the YEAR / MONTH / WEEK frames.  A date  *)
(* is [year, month, day] in the proleptic Gregorian calendar of            *)
(* datetime.date; an instant returned by a sunrise function is the local   *)
(* wall-clock time [date, minute] (minute of the day).  have_swisseph is   *)
(* HAVE_SWISSEPH; rise is what the ephemeris does in swe_sunrise, by half  *)
(* of the year: Some(minute of the rise) or None when a call of it raises. *)
(***************************************************************************)
is_leap(year) == (year % 4 = 0 /\ year % 100 # 0) \/ year % 400 = 0

days_in_month(year, month) ==
    IF month = 2
    THEN (IF is_leap(year) THEN 29 ELSE 28)
    ELSE IF month \in {4, 6, 9, 11} THEN 30 ELSE 31

RECURSIVE days_before_month(_, _)
days_before_month(year, month) ==
    IF month = 1
    THEN 0
    ELSE days_before_month(year, month - 1) + days_in_month(year, month - 1)

\* date.toordinal(): 1 for 0001-01-01.
toordinal(d) ==
    LET y == d.year - 1
    IN  y * 365 + y \div 4 - y \div 100 + y \div 400
            + days_before_month(d.year, d.month) + d.day

\* date.weekday(): Monday is 0.
weekday(d) == (toordinal(d) + 6) % 7

next_day(d) ==
    IF d.day < days_in_month(d.year, d.month)
    THEN [d EXCEPT !.day = d.day + 1]
    ELSE IF d.month < 12
         THEN [year |-> d.year, month |-> d.month + 1, day |-> 1]
         ELSE [year |-> d.year + 1, month |-> 1, day |-> 1]

previous_day(d) ==
    IF d.day > 1
    THEN [d EXCEPT !.day = d.day - 1]
    ELSE IF d.month > 1
         THEN [year |-> d.year, month |-> d.month - 1,
               day |-> days_in_month(d.year, d.month - 1)]
         ELSE [year |-> d.year - 1, month |-> 12, day |-> 31]

\* d + timedelta(days = n), n of either sign.
RECURSIVE add_days(_, _)
add_days(d, n) ==
    IF n = 0 THEN d
    ELSE IF n > 0 THEN add_days(next_day(d), n - 1)
    ELSE add_days(previous_day(d), n + 1)

\* get_draw_time: 19:10 local time on the date.
get_draw_time(d) == [date |-> d, minute |-> 19 * 60 + 10]

fake_sunrise(d) == [date |-> d, minute |-> 8 * 60]

\* Some(instant), or None when swe.rise_trans (or the conversion) raises.
swe_sunrise(d, have_swisseph, rise) ==
    IF ~have_swisseph
    THEN Some(fake_sunrise(d))
    ELSE LET rs == rise[d.month \in 4..9]
         IN  IF rs = None THEN None ELSE Some([date |-> d, minute |-> rs[1]])

get_sunrise(d, have_swisseph, rise) ==
    IF have_swisseph
    THEN LET r == swe_sunrise(d, have_swisseph, rise)
         IN  IF r = None THEN fake_sunrise(d) ELSE r[1]
    ELSE fake_sunrise(d)

\* get_sunrise as a call: returned is Some(instant), or None when an
\* exception leaves the function; swe_calls counts the calls of swe_sunrise.
get_sunrise_call_retrying(d, have_swisseph, rise) ==
    IF have_swisseph
    THEN LET r == swe_sunrise(d, have_swisseph, rise)
         IN  IF r = None
             THEN LET again == swe_sunrise(d, have_swisseph, rise)
                  IN  [returned |-> IF again = None THEN Some(fake_sunrise(d)) ELSE again,
                       swe_calls |-> 2]
             ELSE [returned |-> r, swe_calls |-> 1]
    ELSE [returned |-> Some(fake_sunrise(d)), swe_calls |-> 0]

get_sunrise_call(d, have_swisseph, rise) ==
    IF have_swisseph
    THEN LET r == swe_sunrise(d, have_swisseph, rise)
         IN  [returned |-> IF r = None THEN Some(fake_sunrise(d)) ELSE r,
              swe_calls |-> 1]
    ELSE [returned |-> Some(fake_sunrise(d)), swe_calls |-> 0]

compute_year_frame(draw, have_swisseph, rise) ==
    LET year == draw.date.year
    IN  [start |-> get_sunrise([year |-> year, month |-> 1, day |-> 1],
                               have_swisseph, rise),
         end |-> get_sunrise([year |-> year + 1, month |-> 1, day |-> 1],
                             have_swisseph, rise)]

compute_month_frame_no_rollover(draw, have_swisseph, rise) ==
    LET year == draw.date.year
        month == draw.date.month
    IN  [start |-> get_sunrise([year |-> year, month |-> month, day |-> 1],
                               have_swisseph, rise),
         end |-> IF month = 12
                 THEN get_sunrise([year |-> year, month |-> 1, day |-> 1],
                                  have_swisseph, rise)
                 ELSE get_sunrise([year |-> year, month |-> month + 1, day |-> 1],
                                  have_swisseph, rise)]

compute_month_frame(draw, have_swisseph, rise) ==
    LET year == draw.date.year
        month == draw.date.month
    IN  [start |-> get_sunrise([year |-> year, month |-> month, day |-> 1],
                               have_swisseph, rise),
         end |-> IF month = 12
                 THEN get_sunrise([year |-> year + 1, month |-> 1, day |-> 1],
                                  have_swisseph, rise)
                 ELSE get_sunrise([year |-> year, month |-> month + 1, day |-> 1],
                                  have_swisseph, rise)]

compute_week_frame(draw, have_swisseph, rise) ==
    LET monday_date == add_days(draw.date, 0 - weekday(draw.date))
    IN  [start |-> get_sunrise(monday_date, have_swisseph, rise),
         end |-> get_sunrise(add_days(monday_date, 7), have_swisseph, rise)]

(***************************************************************************)
(* run_timedasha.py : the start lord of a frame.  have_swisseph is the     *)
(* module flag HAVE_SWISSEPH; xx0 is the Moon longitude swe.calc_ut        *)
(* returns for the frame start.  Longitudes are counted in units of 1/1080 *)
(* degree, 14400 to a Nakshatra.                                           *)
(***************************************************************************)
NAKSHATRA_COUNT == 27

UnitsPerDegree == 9 * 120

NAKSHATRA_SIZE == (360 * UnitsPerDegree) \div NAKSHATRA_COUNT

get_moon_sidereal_longitude(have_swisseph, xx0) ==
    IF ~have_swisseph THEN None ELSE Some(xx0 % (360 * UnitsPerDegree))

get_start_lord_fixed(have_swisseph, xx0) == "KETU"

\* int(moon_lon / NAKSHATRA_SIZE): the quotient of an exact Nakshatra start
\* by the double 360.0 / 27 falls short of a whole number by less than half
\* the spacing of the doubles there and is rounded to it, so the truncation
\* gives the exact floor.
get_start_lord_for_frame(have_swisseph, xx0) ==
    LET moon_lon == get_moon_sidereal_longitude(have_swisseph, xx0)
    IN  IF moon_lon = None
        THEN "KETU"
        ELSE LET nak_index == moon_lon[1] \div NAKSHATRA_SIZE
             IN  DASHA_ORDER[(nak_index % Len(DASHA_ORDER)) + 1]

(***************************************************************************)
(* astro_snapshot_engine.py : KP constants.  Longitudes are counted in     *)
(* units of 1/1080 degree, in which the Nakshatra span (360/27 degrees),   *)
(* the Sub spans (years * span / 120) and the SSL spans are whole numbers. *)
(***************************************************************************)
KP_DASHA_ORDER == <<"KE", "VE", "SU", "MO", "MA", "RA", "JU", "SA", "ME">>

KP_DASHA_YEARS == <<7, 20, 6, 10, 7, 18, 16, 19, 17>>

NAKS_TOTAL == 27

NAKS_SPAN_DEG == (360 * UnitsPerDegree) \div NAKS_TOTAL

normalize_deg(deg) == deg % (360 * UnitsPerDegree)

\* lon // NAKS_SPAN_DEG for lon in [0, 360).  The double 360.0 / 27 is
\* 13.333333333333334, above 40/3 by 1/(3 * 2^49) degree, so i spans of it
\* reach past the i-th exact Nakshatra start for every i > 0: the floor of
\* the quotient is the largest i with i = 0 or i * span strictly below lon.
\* A longitude of the model stands for the double nearest to it; the ones on
\* a Nakshatra start are whole multiples of 40 degrees and are exact doubles.
floor_div_span(lon) ==
    IF lon > 0 /\ lon % NAKS_SPAN_DEG = 0
    THEN lon \div NAKS_SPAN_DEG - 1
    ELSE lon \div NAKS_SPAN_DEG

compute_nakshatra_index(longitude) ==
    LET idx == floor_div_span(normalize_deg(longitude))
    IN  IF idx >= NAKS_TOTAL THEN NAKS_TOTAL - 1 ELSE idx

\* The loops of lines 233-239 and 257-263: the first index i whose segment
\* ends after pos, or the last index; with the start of that segment.
RECURSIVE locate_in_lengths(_, _, _, _)
locate_in_lengths(lengths, pos, cumulative, i) ==
    IF pos < cumulative + lengths[i] \/ i = Len(lengths)
    THEN [index |-> i, start |-> cumulative]
    ELSE locate_in_lengths(lengths, pos, cumulative + lengths[i], i + 1)

compute_sub_ssl_for_longitude(longitude) ==
    LET lon == normalize_deg(longitude)
        nak_index == compute_nakshatra_index(lon)
        nak_start_deg == nak_index * NAKS_SPAN_DEG
        nak_pos_deg == lon - nak_start_deg
        star_lord_index == nak_index % Len(KP_DASHA_ORDER)
        star_lord == KP_DASHA_ORDER[star_lord_index + 1]
        \* base_unit = NAKS_SPAN_DEG / 120; sub_lengths = years * base_unit
        sub_lengths == [i \in 1..9 |-> (KP_DASHA_YEARS[i] * NAKS_SPAN_DEG) \div 120]
        order_indices == [i \in 1..9 |-> ((star_lord_index + i - 1) % 9) + 1]
        ordered_sub_lords == [i \in 1..9 |-> KP_DASHA_ORDER[order_indices[i]]]
        ordered_sub_lengths == [i \in 1..9 |-> sub_lengths[order_indices[i]]]
        sub_hit == locate_in_lengths(ordered_sub_lengths, nak_pos_deg, 0, 1)
        sub_lord == ordered_sub_lords[sub_hit.index]
        sub_start_deg == sub_hit.start
        sub_span_deg == ordered_sub_lengths[sub_hit.index]
        sub_pos_deg == nak_pos_deg - sub_start_deg
        sub_lord_global_index == IndexOf(KP_DASHA_ORDER, sub_lord) - 1
        ssl_order_indices == [i \in 1..9 |-> ((sub_lord_global_index + i - 1) % 9) + 1]
        ordered_ssl_lords == [i \in 1..9 |-> KP_DASHA_ORDER[ssl_order_indices[i]]]
        \* ssl_base_unit = sub_span_deg / 120; ssl_lengths = years * ssl_base_unit
        ssl_lengths == [i \in 1..9 |-> (KP_DASHA_YEARS[i] * sub_span_deg) \div 120]
        ssl_hit == locate_in_lengths(ssl_lengths, sub_pos_deg, 0, 1)
    IN  [nak_index |-> nak_index,
         nak_start_deg |-> nak_start_deg,
         nak_pos_deg |-> nak_pos_deg,
         star_lord |-> star_lord,
         sub_lord |-> sub_lord,
         ssl |-> ordered_ssl_lords[ssl_hit.index],
         sub_start_deg |-> sub_start_deg,
         sub_span_deg |-> sub_span_deg,
         sub_pos_deg |-> sub_pos_deg,
         ssl_start_deg |-> ssl_hit.start,
         ssl_pos_deg |-> sub_pos_deg - ssl_hit.start]

(***************************************************************************)
(* AstroSnapshotEngine.  A candle is [timestamp, open, close], timestamp   *)
(* in seconds; tf, high and low are carried along unread and are left out. *)
(* has_swisseph is the module flag HAS_SWISSEPH, anchor is config.anchor,  *)
(* lon_at is the Moon longitude the ephemeris returns for a timestamp.     *)
(***************************************************************************)
_compute_trend_no_neutral(candle) ==
    IF candle.close >= candle.open THEN "up" ELSE "down"

_compute_trend(candle) ==
    IF candle.close > candle.open THEN "up"
    ELSE IF candle.close < candle.open THEN "down"
    ELSE "neutral"

\* The text of meta["info"] in the fallback branch (line 397; its dash is
\* written as a hyphen here).
FallbackInfo == "FALLBACK - pyswisseph nicht installiert"

_compute_astro_untagged(ts, has_swisseph, anchor, lon_at) ==
    IF ~has_swisseph
    THEN LET minute_index == ts \div 60
             sub_names == <<"KE", "VE", "SU", "MO", "MA", "RA", "JU", "SA", "ME">>
             ssl_names == <<"KE-SSL", "VE-SSL", "SU-SSL", "MO-SSL", "MA-SSL",
                            "RA-SSL", "JU-SSL", "SA-SSL", "ME-SSL">>
         IN  [sub |-> sub_names[(minute_index % Len(sub_names)) + 1],
              ssl |-> ssl_names[(minute_index % Len(ssl_names)) + 1],
              meta |-> [minute_index |-> minute_index]]
    ELSE IF anchor = "moon"
    THEN LET info == compute_sub_ssl_for_longitude(lon_at[ts])
         IN  [sub |-> info.sub_lord,
              ssl |-> info.ssl,
              meta |-> [anchor |-> "moon",
                        lon_sidereal |-> lon_at[ts],
                        nak_index |-> info.nak_index,
                        nak_start_deg |-> info.nak_start_deg,
                        nak_pos_deg |-> info.nak_pos_deg,
                        star_lord |-> info.star_lord,
                        sub_start_deg |-> info.sub_start_deg,
                        sub_span_deg |-> info.sub_span_deg,
                        sub_pos_deg |-> info.sub_pos_deg,
                        ssl_start_deg |-> info.ssl_start_deg,
                        ssl_pos_deg |-> info.ssl_pos_deg]]
    ELSE LET minute_index == ts \div 60
         IN  [sub |-> KP_DASHA_ORDER[(minute_index % Len(KP_DASHA_ORDER)) + 1],
              ssl |-> KP_DASHA_ORDER[((minute_index * 2) % Len(KP_DASHA_ORDER)) + 1],
              meta |-> [info |-> "ANCHOR-TYP NICHT IMPLEMENTIERT", anchor |-> anchor,
                        minute_index |-> minute_index]]

_compute_astro_ssl_doubled(ts, has_swisseph, anchor, lon_at) ==
    IF ~has_swisseph
    THEN LET minute_index == ts \div 60
             sub_names == <<"KE", "VE", "SU", "MO", "MA", "RA", "JU", "SA", "ME">>
             ssl_names == <<"KE-SSL", "VE-SSL", "SU-SSL", "MO-SSL", "MA-SSL",
                            "RA-SSL", "JU-SSL", "SA-SSL", "ME-SSL">>
         IN  [sub |-> sub_names[(minute_index % Len(sub_names)) + 1],
              ssl |-> ssl_names[((minute_index * 2) % Len(ssl_names)) + 1],
              meta |-> [info |-> FallbackInfo, minute_index |-> minute_index]]
    ELSE IF anchor = "moon"
    THEN LET info == compute_sub_ssl_for_longitude(lon_at[ts])
         IN  [sub |-> info.sub_lord,
              ssl |-> info.ssl,
              meta |-> [anchor |-> "moon",
                        lon_sidereal |-> lon_at[ts],
                        nak_index |-> info.nak_index,
                        nak_start_deg |-> info.nak_start_deg,
                        nak_pos_deg |-> info.nak_pos_deg,
                        star_lord |-> info.star_lord,
                        sub_start_deg |-> info.sub_start_deg,
                        sub_span_deg |-> info.sub_span_deg,
                        sub_pos_deg |-> info.sub_pos_deg,
                        ssl_start_deg |-> info.ssl_start_deg,
                        ssl_pos_deg |-> info.ssl_pos_deg]]
    ELSE LET minute_index == ts \div 60
         IN  [sub |-> KP_DASHA_ORDER[(minute_index % Len(KP_DASHA_ORDER)) + 1],
              ssl |-> KP_DASHA_ORDER[((minute_index * 2) % Len(KP_DASHA_ORDER)) + 1],
              meta |-> [info |-> "ANCHOR-TYP NICHT IMPLEMENTIERT", anchor |-> anchor,
                        minute_index |-> minute_index]]

_compute_astro_for_timestamp(ts, has_swisseph, anchor, lon_at) ==
    IF ~has_swisseph
    THEN LET minute_index == ts \div 60
             sub_names == <<"KE", "VE", "SU", "MO", "MA", "RA", "JU", "SA", "ME">>
             ssl_names == <<"KE-SSL", "VE-SSL", "SU-SSL", "MO-SSL", "MA-SSL",
                            "RA-SSL", "JU-SSL", "SA-SSL", "ME-SSL">>
         IN  [sub |-> sub_names[(minute_index % Len(sub_names)) + 1],
              ssl |-> ssl_names[(minute_index % Len(ssl_names)) + 1],
              meta |-> [info |-> FallbackInfo, minute_index |-> minute_index]]
    ELSE IF anchor = "moon"
    THEN LET info == compute_sub_ssl_for_longitude(lon_at[ts])
         IN  [sub |-> info.sub_lord,
              ssl |-> info.ssl,
              meta |-> [anchor |-> "moon",
                        lon_sidereal |-> lon_at[ts],
                        nak_index |-> info.nak_index,
                        nak_start_deg |-> info.nak_start_deg,
                        nak_pos_deg |-> info.nak_pos_deg,
                        star_lord |-> info.star_lord,
                        sub_start_deg |-> info.sub_start_deg,
                        sub_span_deg |-> info.sub_span_deg,
                        sub_pos_deg |-> info.sub_pos_deg,
                        ssl_start_deg |-> info.ssl_start_deg,
                        ssl_pos_deg |-> info.ssl_pos_deg]]
    ELSE LET minute_index == ts \div 60
         IN  [sub |-> KP_DASHA_ORDER[(minute_index % Len(KP_DASHA_ORDER)) + 1],
              ssl |-> KP_DASHA_ORDER[((minute_index * 2) % Len(KP_DASHA_ORDER)) + 1],
              meta |-> [info |-> "ANCHOR-TYP NICHT IMPLEMENTIERT", anchor |-> anchor,
                        minute_index |-> minute_index]]

\* sorted(list(candles), key = timestamp): a stable sort.
RECURSIVE insert_sorted(_, _)
insert_sorted(sorted_list, c) ==
    IF sorted_list = <<>>
    THEN <<c>>
    ELSE IF Head(sorted_list).timestamp <= c.timestamp
         THEN <<Head(sorted_list)>> \o insert_sorted(Tail(sorted_list), c)
         ELSE <<c>> \o sorted_list

RECURSIVE sorted_by_timestamp(_)
sorted_by_timestamp(cs) ==
    IF cs = <<>>
    THEN <<>>
    ELSE insert_sorted(sorted_by_timestamp(SubSeq(cs, 1, Len(cs) - 1)), cs[Len(cs)])

\* One step of the backward loop of _compute_distance_to_next_changes: record
\* i, with the change indices carried from record i+1 (None when unset).
distance_step_reset(snaps, i, carried_sub, carried_ssl) ==
    LET n == Len(snaps)
        next_sub == IF i < n /\ snaps[i + 1].astro.sub # snaps[i].astro.sub
                    THEN Some(i + 1) ELSE None
        next_ssl == IF i < n /\ snaps[i + 1].astro.ssl # snaps[i].astro.ssl
                    THEN Some(i + 1) ELSE None
    IN  [next_sub_change_index |-> next_sub,
         next_ssl_change_index |-> next_ssl]

distance_step(snaps, i, carried_sub, carried_ssl) ==
    LET n == Len(snaps)
        next_sub == IF i < n /\ snaps[i + 1].astro.sub # snaps[i].astro.sub
                    THEN Some(i + 1) ELSE carried_sub
        next_ssl == IF i < n /\ snaps[i + 1].astro.ssl # snaps[i].astro.ssl
                    THEN Some(i + 1) ELSE carried_ssl
    IN  [next_sub_change_index |-> next_sub,
         next_ssl_change_index |-> next_ssl]

\* delta.total_seconds() / 60.0, or None.
distance_minutes(snaps, i, target) ==
    IF target = None
    THEN None
    ELSE Some(Rat(snaps[target[1]].candle.timestamp - snaps[i].candle.timestamp, 60))

RECURSIVE distance_loop(_, _, _, _)
distance_loop(snaps, i, carried_sub, carried_ssl) ==
    IF i = 0
    THEN snaps
    ELSE LET idx == distance_step(snaps, i, carried_sub, carried_ssl)
             annotated ==
                 [snaps EXCEPT
                    ![i].dist_to_next_sub_change =
                        distance_minutes(snaps, i, idx.next_sub_change_index),
                    ![i].dist_to_next_ssl_change =
                        distance_minutes(snaps, i, idx.next_ssl_change_index)]
         IN  distance_loop(annotated, i - 1,
                           idx.next_sub_change_index, idx.next_ssl_change_index)

_compute_distance_to_next_changes(snaps) ==
    distance_loop(snaps, Len(snaps), None, None)

_annotate_distances_need_links(snaps, cfg) ==
    IF snaps = <<>>
    THEN snaps
    ELSE IF cfg.track_prev_next
    THEN LET linked ==
                 [i \in 1..Len(snaps) |->
                     [snaps[i] EXCEPT
                        !.prev = IF i = 1 THEN None ELSE Some(snaps[i - 1].astro),
                        !.next = IF i = Len(snaps) THEN None ELSE Some(snaps[i + 1].astro)]]
         IN  IF cfg.track_distances
             THEN _compute_distance_to_next_changes(linked)
             ELSE linked
    ELSE snaps

_annotate_linked_to_itself(snaps, cfg) ==
    IF snaps = <<>>
    THEN snaps
    ELSE LET linked ==
                 IF cfg.track_prev_next
                 THEN [i \in 1..Len(snaps) |->
                          [snaps[i] EXCEPT
                             !.prev = IF i = 1 THEN None ELSE Some(snaps[i].astro),
                             !.next = IF i = Len(snaps) THEN None ELSE Some(snaps[i + 1].astro)]]
                 ELSE snaps
         IN  IF cfg.track_distances
             THEN _compute_distance_to_next_changes(linked)
             ELSE linked

_annotate_prev_next_and_distances(snaps, cfg) ==
    IF snaps = <<>>
    THEN snaps
    ELSE LET linked ==
                 IF cfg.track_prev_next
                 THEN [i \in 1..Len(snaps) |->
                          [snaps[i] EXCEPT
                             !.prev = IF i = 1 THEN None ELSE Some(snaps[i - 1].astro),
                             !.next = IF i = Len(snaps) THEN None ELSE Some(snaps[i + 1].astro)]]
                 ELSE snaps
         IN  IF cfg.track_distances
             THEN _compute_distance_to_next_changes(linked)
             ELSE linked

build_snapshots_unsorted(cs, cfg, has_swisseph, lon_at) ==
    LET candles_list == cs
        records ==
            [i \in 1..Len(candles_list) |->
                [candle |-> candles_list[i],
                 trend |-> _compute_trend(candles_list[i]),
                 astro |-> _compute_astro_for_timestamp(candles_list[i].timestamp,
                                                        has_swisseph, cfg.anchor, lon_at),
                 prev |-> None,
                 next |-> None,
                 dist_to_next_sub_change |-> None,
                 dist_to_next_ssl_change |-> None]]
    IN  IF cfg.track_prev_next \/ cfg.track_distances
        THEN _annotate_prev_next_and_distances(records, cfg)
        ELSE records

build_snapshots(cs, cfg, has_swisseph, lon_at) ==
    LET candles_list == sorted_by_timestamp(cs)
        records ==
            [i \in 1..Len(candles_list) |->
                [candle |-> candles_list[i],
                 trend |-> _compute_trend(candles_list[i]),
                 astro |-> _compute_astro_for_timestamp(candles_list[i].timestamp,
                                                        has_swisseph, cfg.anchor, lon_at),
                 prev |-> None,
                 next |-> None,
                 dist_to_next_sub_change |-> None,
                 dist_to_next_ssl_change |-> None]]
    IN  IF cfg.track_prev_next \/ cfg.track_distances
        THEN _annotate_prev_next_and_distances(records, cfg)
        ELSE records

\* SnapshotEngineConfig(): the default configuration.
SnapshotEngineConfig ==
    [use_minutes_step |-> 1, track_prev_next |-> TRUE, track_distances |-> TRUE,
     anchor |-> "moon"]

(***************************************************************************)
(* SystemControlGate and Orchestrator.run_task.  A payload or a handler's  *)
(* output is [type, keys, result]: its Python type, the keys of a dict and *)
(* the value under "result" ("None", or "value" for anything else).  An    *)
(* info dict is its reason text; the empty dict {} is "".  The message     *)
(* texts are left out.                                                     *)
(***************************************************************************)
NoneValue == [type |-> "NoneType", keys |-> {}, result |-> "None"]

\* str.lower() on the task names used here.
lower(s) ==
    CASE s = "Shutdown" -> "shutdown"
      [] s = "WIPE" -> "wipe"
      [] OTHER -> s

RestrictedTasks == {"shutdown", "reset", "wipe", "danger"}

ProfileAgents == {"trend", "forecast"}

precheck(agent_name, task_name, payload) ==
    IF payload.type = "NoneType"
    THEN [ok |-> FALSE, info |-> "payload_none"]
    ELSE IF lower(task_name) \in RestrictedTasks
    THEN [ok |-> FALSE, info |-> "restricted_task"]
    ELSE IF agent_name \in ProfileAgents /\ "profile" \notin payload.keys
    THEN [ok |-> FALSE, info |-> "missing_profile"]
    ELSE [ok |-> TRUE, info |-> ""]

postcheck(agent_name, task_name, payload, output) ==
    IF output.type = "NoneType"
    THEN [ok |-> FALSE, info |-> "null_output"]
    ELSE IF output.type # "dict"
    THEN [ok |-> FALSE, info |-> "invalid_type"]
    ELSE IF "result" \notin output.keys
    THEN [ok |-> FALSE, info |-> "missing_result"]
    ELSE IF agent_name \in ProfileAgents /\ output.result = "None"
    THEN [ok |-> FALSE, info |-> "invalid_analysis"]
    ELSE [ok |-> TRUE, info |-> ""]

\* Orchestrator.__init__: the names in the registry.
Registry ==
    {"pattern", "structure", "pointengine", "pointdynamics", "temporal",
     "coherence", "anomaly", "fusion", "drift", "guardian", "cluster",
     "horizon", "trend", "forecast", "signature"}

\* run_task after the precheck (lines 175-181): where it goes on and what it
\* returns when it stops.
after_precheck_ignored(pre) ==
    [at |-> "getattr", returned |-> None]

after_precheck(pre) ==
    IF ~pre.ok
    THEN [at |-> "returned",
          returned |-> Some([ok |-> FALSE, stage |-> "precheck", info |-> pre.info])]
    ELSE [at |-> "getattr", returned |-> None]

\* run_task after the handler (lines 194-201): attempt is what the handler
\* did, [raised, output].
after_execution(attempt) ==
    IF attempt.raised
    THEN [at |-> "returned",
          returned |-> Some([ok |-> FALSE, stage |-> "execution", error |-> "exc"])]
    ELSE [at |-> "postcheck", returned |-> None]

\* run_task after the postcheck (lines 206-220).
after_postcheck(post, output) ==
    IF ~post.ok
    THEN Some([ok |-> FALSE, stage |-> "postcheck", info |-> post.info,
               output |-> output])
    ELSE Some([ok |-> TRUE, result |-> output.result, raw |-> output])

(***************************************************************************)
(* pipeline.py : PipelineRunner.run_pipeline.  A payload is the list of    *)
(* the ids of the agents whose markers are in its "_trace" (an agent's run *)
(* returns the payload with its own marker appended, lines 241-256); an    *)
(* agent of the registry is "ok" (enabled, run returns), "raises"          *)
(* (enabled, run raises), "disabled", or "missing" (get_optional returns   *)
(* None).  Of AgentResult.data only whether it is a payload or None is     *)
(* kept; the time stamps and the log lines are left out.                   *)
(***************************************************************************)
default_pipeline == <<1, 2, 3, 4, 5, 6, 7, 8, 9>>

\* Lines 484-488: the defaults of the two optional arguments.
pipeline_or_default(pipeline_arg) ==
    IF pipeline_arg = None THEN default_pipeline ELSE pipeline_arg[1]

mandatory_or_default(mandatory_arg, pipeline_list) ==
    IF mandatory_arg = None THEN Range(pipeline_list) ELSE mandatory_arg[1]

\* Lines 500-508: the result recorded for an agent that is not registered.
unregistered_result(agent_id) ==
    [agent_id |-> agent_id, agent_name |-> "UNKNOWN", success |-> FALSE,
     data |-> "None", error |-> "Agent not registered."]

\* Lines 518-545: one enabled agent is run on the payload.  The payload
\* variable is assigned only when run returns.
run_agent_payload_lost(kind, agent_id, payload_in, debug) ==
    IF kind = "raises"
    THEN [payload |-> <<>>,
          returned |-> None,
          result |-> [agent_id |-> agent_id, agent_name |-> "agent", success |-> FALSE,
                      data |-> IF debug THEN "payload" ELSE "None",
                      error |-> "exc"]]
    ELSE [payload |-> Append(payload_in, agent_id),
          returned |-> Some(Append(payload_in, agent_id)),
          result |-> [agent_id |-> agent_id, agent_name |-> "agent", success |-> TRUE,
                      data |-> "payload", error |-> "None"]]

run_agent(kind, agent_id, payload_in, debug) ==
    IF kind = "raises"
    THEN [payload |-> payload_in,
          returned |-> None,
          result |-> [agent_id |-> agent_id, agent_name |-> "agent", success |-> FALSE,
                      data |-> IF debug THEN "payload" ELSE "None",
                      error |-> "exc"]]
    ELSE [payload |-> Append(payload_in, agent_id),
          returned |-> Some(Append(payload_in, agent_id)),
          result |-> [agent_id |-> agent_id, agent_name |-> "agent", success |-> TRUE,
                      data |-> "payload", error |-> "None"]]

\* Lines 549-551: all(r.success for r in results if r.agent_id in mandatory_agents).
report_success(result_list, mandatory) ==
    \A i \in DOMAIN result_list :
        result_list[i].agent_id \in mandatory => result_list[i].success

(***************************************************************************)
(* State                                                                   *)
(***************************************************************************)
VARIABLES
    frame_start,      \* frame["start"]
    frame_end,        \* frame["end"]
    start_lord,       \* start lord handed to compute_active_vimshottari_levels
    draw_time,        \* the query instant
    pc,               \* "idle", "call", "done" or "ValueError"
    level_segments,   \* the nine segments built at each level (locals of the call)
    levels,           \* the returned dict, indexed by position in LevelNames
    HAS_SWISSEPH,     \* astro_snapshot_engine.HAS_SWISSEPH
    config,           \* AstroSnapshotEngine.config
    moon_lon,         \* the ephemeris: Moon longitude at each timestamp
    candles,          \* the batch handed to build_snapshots, in the caller's order
    snapshots,        \* the list build_snapshots returned
    engine_pc,        \* "idle", "ready" or "built"
    HAVE_SWISSEPH,    \* run_timedasha.HAVE_SWISSEPH
    longitude_deg_sidereal,  \* the Moon longitude handed to the KP functions
    query_ts,         \* the timestamp handed to _compute_astro_for_timestamp
    sub_ssl_info,     \* what compute_sub_ssl_for_longitude returned
    frame_dasha_lord, \* what get_start_lord_for_frame returned
    astro_state,      \* what _compute_astro_for_timestamp returned
    query_date,       \* the date handed to get_draw_time
    swe_rise,         \* what the ephemeris does in swe_sunrise, by half-year
    year_frame,       \* what compute_year_frame returned
    month_frame,      \* what compute_month_frame returned
    week_frame,       \* what compute_week_frame returned
    sunrise_call,     \* one call of get_sunrise: what came back, ephemeris calls
    tables,           \* the module-level DASHA_ORDER / DASHA_YEARS objects
    table_calls,      \* how many operations have been called on them so far
    last_call,        \* the last operation called and what it returned
    run_agent_name,   \* run_task: argument agent_name
    run_task_name,    \* run_task: argument task_name
    run_payload,      \* run_task: argument payload
    agent_task,       \* what the agent's attribute of that name does when called
    run_pc,           \* position inside run_task
    stage_calls,      \* precheck / handler / postcheck calls made, in order
    handler_output,   \* what the handler returned, once it has
    run_returned,     \* the dict run_task returned, once it has
    arg_pipeline,     \* run_pipeline: argument pipeline (None or a list of ids)
    arg_mandatory,    \* run_pipeline: argument mandatory_agents (None or ids)
    debug_mode,       \* config.debug_mode
    registry_agents,  \* what the registry holds under each agent id
    pipeline,         \* local pipeline after the defaults
    mandatory_agents, \* local mandatory_agents after the defaults
    next_index,       \* position of the for loop in pipeline
    current_payload,  \* local payload
    results,          \* local results
    agent_runs,       \* every agent.run call: agent, payload received, returned
    report,           \* the PipelineReport returned, once it has
    pipeline_pc       \* position inside run_pipeline

dasha_vars == <<frame_start, frame_end, start_lord, draw_time, pc, level_segments, levels>>

engine_vars == <<HAS_SWISSEPH, config, moon_lon, candles, snapshots, engine_pc>>

kp_vars == <<HAVE_SWISSEPH, longitude_deg_sidereal, query_ts, sub_ssl_info,
            frame_dasha_lord, astro_state>>

frame_vars == <<query_date, swe_rise, year_frame, month_frame, week_frame>>

sunrise_vars == <<sunrise_call>>

table_vars == <<tables, table_calls, last_call>>

run_vars ==
    <<run_agent_name, run_task_name, run_payload, agent_task, run_pc, stage_calls,
      handler_output, run_returned>>

pipeline_vars ==
    <<arg_pipeline, arg_mandatory, debug_mode, registry_agents, pipeline,
      mandatory_agents, next_index, current_payload, results, agent_runs, report,
      pipeline_pc>>

vars ==
    <<dasha_vars, engine_vars, kp_vars, frame_vars, sunrise_vars, table_vars,
      run_vars, pipeline_vars>>

\* Start lords handed to the call: the canonical ones and two unknown names.
LordInputs == Range(DASHA_ORDER) \cup {"PLUTO", "ketu"}

\* Candle timestamps, in seconds: two samples per minute.
TsSamples == {30 * i : i \in 0..MaxTs}

\* Moon longitudes, in units of 1/1080 degree, inside Ashwini.
LonSamples == {430 * i : i \in 0..MaxLon}

\* The Moon moves forward: an ephemeris is a non-decreasing map from the
\* timestamps to the longitudes.
MoonEphemerides ==
    {f \in [TsSamples -> LonSamples] : \A a, b \in TsSamples : a <= b => f[a] <= f[b]}

\* A rising, a falling and a flat candle.
OhlcSamples == {<<1, 2>>, <<2, 1>>, <<1, 1>>}

CandleInputs ==
    {[timestamp |-> t, open |-> p[1], close |-> p[2]] : t \in TsSamples, p \in OhlcSamples}

BatchInputs == UNION {[1..n -> CandleInputs] : n \in 0..MaxCandles}

DashaIdle ==
    /\ frame_start = 0
    /\ frame_end = 0
    /\ start_lord = "KETU"
    /\ draw_time = 0
    /\ pc = "idle"
    /\ level_segments = <<>>
    /\ levels = <<>>

EngineIdle ==
    /\ HAS_SWISSEPH = FALSE
    /\ config = SnapshotEngineConfig
    /\ moon_lon = [ts \in TsSamples |-> 0]
    /\ candles = <<>>
    /\ snapshots = <<>>
    /\ engine_pc = "idle"

KpIdle ==
    /\ HAVE_SWISSEPH = FALSE
    /\ longitude_deg_sidereal = 0
    /\ query_ts = 0
    /\ sub_ssl_info = None
    /\ frame_dasha_lord = None
    /\ astro_state = None

\* Without Swiss Ephemeris nothing is asked of it.
NoEphemeris == [summer \in BOOLEAN |-> None]

FramesIdle ==
    /\ query_date = [year |-> 1, month |-> 1, day |-> 1]
    /\ swe_rise = NoEphemeris
    /\ year_frame = None
    /\ month_frame = None
    /\ week_frame = None

SunriseIdle == sunrise_call = None

\* The tables as the two modules define them at import.
ModuleTables ==
    [order |-> DASHA_ORDER, years |-> DASHA_YEARS,
     kp_order |-> KP_DASHA_ORDER, kp_years |-> KP_DASHA_YEARS]

TablesIdle ==
    /\ tables = ModuleTables
    /\ table_calls = 0
    /\ last_call = None

RunIdle ==
    /\ run_agent_name = "pattern"
    /\ run_task_name = "run"
    /\ run_payload = NoneValue
    /\ agent_task = [does |-> "AttributeError", output |-> NoneValue]
    /\ run_pc = "idle"
    /\ stage_calls = <<>>
    /\ handler_output = None
    /\ run_returned = None

\* AgentRegistry() as _initialize_default_agents fills it: agents 0-12, all
\* enabled; 99 is an id that is not registered.
RegistryIds == 0..12 \cup {99}

DefaultRegistry == [id \in RegistryIds |-> IF id = 99 THEN "missing" ELSE "ok"]

PipelineIdle ==
    /\ arg_pipeline = None
    /\ arg_mandatory = None
    /\ debug_mode = TRUE
    /\ registry_agents = DefaultRegistry
    /\ pipeline = <<>>
    /\ mandatory_agents = {}
    /\ next_index = 1
    /\ current_payload = <<>>
    /\ results = <<>>
    /\ agent_runs = <<>>
    /\ report = None
    /\ pipeline_pc = "idle"

(***************************************************************************)
(* Spec: one call of compute_active_vimshottari_levels on a frame, a start *)
(* lord and a query instant.                                               *)
(***************************************************************************)
Init ==
    /\ frame_start \in 0..MaxStart
    /\ frame_end \in frame_start..(frame_start + MaxSpan)
    /\ start_lord \in LordInputs
    /\ draw_time \in (frame_start - 1)..(frame_end + 1)
    /\ pc = "call"
    /\ level_segments = <<>>
    /\ levels = <<>>
    /\ EngineIdle
    /\ KpIdle
    /\ FramesIdle
    /\ SunriseIdle
    /\ TablesIdle
    /\ RunIdle
    /\ PipelineIdle

\* compute_active_vimshottari_levels returns the six levels.
ComputeLevels ==
    /\ pc = "call"
    /\ rotate_order_to(start_lord) # "ValueError"
    /\ LET result == compute_active_vimshottari_levels(frame_start, frame_end,
                                                       draw_time, start_lord)
       IN  /\ level_segments' = result.segments
           /\ levels' = result.levels
    /\ pc' = "done"
    /\ UNCHANGED <<frame_start, frame_end, start_lord, draw_time>>
    /\ UNCHANGED engine_vars
    /\ UNCHANGED kp_vars
    /\ UNCHANGED frame_vars
    /\ UNCHANGED sunrise_vars
    /\ UNCHANGED table_vars
    /\ UNCHANGED run_vars
    /\ UNCHANGED pipeline_vars

\* rotate_order_to raises inside build_maha_segments: nothing is returned.
ComputeRaises ==
    /\ pc = "call"
    /\ rotate_order_to(start_lord) = "ValueError"
    /\ pc' = "ValueError"
    /\ UNCHANGED <<frame_start, frame_end, start_lord, draw_time, level_segments, levels>>
    /\ UNCHANGED engine_vars
    /\ UNCHANGED kp_vars
    /\ UNCHANGED frame_vars
    /\ UNCHANGED sunrise_vars
    /\ UNCHANGED table_vars
    /\ UNCHANGED run_vars
    /\ UNCHANGED pipeline_vars

Next == ComputeLevels \/ ComputeRaises

Spec == Init /\ [][Next]_vars

(***************************************************************************)
(* SpecEngine: an AstroSnapshotEngine with the default configuration, with *)
(* or without Swiss Ephemeris, and one call of build_snapshots on a batch. *)
(***************************************************************************)
InitEngine ==
    /\ DashaIdle
    /\ KpIdle
    /\ FramesIdle
    /\ HAS_SWISSEPH \in BOOLEAN
    /\ config = SnapshotEngineConfig
    /\ moon_lon \in (IF HAS_SWISSEPH THEN MoonEphemerides ELSE {[ts \in TsSamples |-> 0]})
    /\ candles = <<>>
    /\ snapshots = <<>>
    /\ engine_pc = "ready"
    /\ SunriseIdle
    /\ TablesIdle
    /\ RunIdle
    /\ PipelineIdle

BuildSnapshots ==
    /\ engine_pc = "ready"
    /\ \E batch \in BatchInputs :
           /\ candles' = batch
           /\ snapshots' = build_snapshots(batch, config, HAS_SWISSEPH, moon_lon)
    /\ engine_pc' = "built"
    /\ UNCHANGED <<HAS_SWISSEPH, config, moon_lon>>
    /\ UNCHANGED dasha_vars
    /\ UNCHANGED kp_vars
    /\ UNCHANGED frame_vars
    /\ UNCHANGED sunrise_vars
    /\ UNCHANGED table_vars
    /\ UNCHANGED run_vars
    /\ UNCHANGED pipeline_vars

NextEngine == BuildSnapshots

SpecEngine == InitEngine /\ [][NextEngine]_vars

(***************************************************************************)
(* SpecKp: the KP functions on one Moon longitude and one timestamp, with  *)
(* or without Swiss Ephemeris: compute_sub_ssl_for_longitude,              *)
(* get_start_lord_for_frame and _compute_astro_for_timestamp are each      *)
(* called once, in any order.                                              *)
(***************************************************************************)
Circle == 360 * UnitsPerDegree

Turns == (0 - MaxTurn)..MaxTurn

\* The Nakshatra starts that are doubles (every third one, 40 degrees apart)
\* and points inside an SSL segment (every 10 degrees, an eighth of a degree
\* on), on the circle and a number of full turns below and above it.
LonInputs ==
    {t * Circle + j * 3 * NAKS_SPAN_DEG : t \in Turns, j \in 0..8}
        \cup {t * Circle + i * 10 * UnitsPerDegree + UnitsPerDegree \div 8 :
                  t \in Turns, i \in 0..35}

\* Timestamps in seconds, before and after the epoch, half a minute into
\* each minute.
KpTsSamples == {60 * i + 30 : i \in (0 - MaxMinute)..MaxMinute}

AnchorInputs == {"moon", "lagna"}

InitKp ==
    /\ DashaIdle
    /\ FramesIdle
    /\ HAS_SWISSEPH \in BOOLEAN
    /\ HAVE_SWISSEPH = HAS_SWISSEPH
    /\ config \in {[SnapshotEngineConfig EXCEPT !.anchor = a] : a \in AnchorInputs}
    /\ moon_lon = [t \in TsSamples |-> 0]
    /\ candles = <<>>
    /\ snapshots = <<>>
    /\ engine_pc = "idle"
    /\ longitude_deg_sidereal \in LonInputs
    /\ query_ts \in (IF HAS_SWISSEPH THEN {30} ELSE KpTsSamples)
    /\ sub_ssl_info = None
    /\ frame_dasha_lord = None
    /\ astro_state = None
    /\ SunriseIdle
    /\ TablesIdle
    /\ RunIdle
    /\ PipelineIdle

ComputeSubSsl ==
    /\ sub_ssl_info = None
    /\ sub_ssl_info' = Some(compute_sub_ssl_for_longitude(longitude_deg_sidereal))
    /\ UNCHANGED <<HAVE_SWISSEPH, longitude_deg_sidereal, query_ts, frame_dasha_lord,
                   astro_state>>
    /\ UNCHANGED <<dasha_vars, engine_vars, frame_vars>>
    /\ UNCHANGED sunrise_vars
    /\ UNCHANGED table_vars
    /\ UNCHANGED run_vars
    /\ UNCHANGED pipeline_vars

GetStartLordForFrame ==
    /\ frame_dasha_lord = None
    /\ frame_dasha_lord' = Some(get_start_lord_for_frame(HAVE_SWISSEPH, longitude_deg_sidereal))
    /\ UNCHANGED <<HAVE_SWISSEPH, longitude_deg_sidereal, query_ts, sub_ssl_info,
                   astro_state>>
    /\ UNCHANGED <<dasha_vars, engine_vars, frame_vars>>
    /\ UNCHANGED sunrise_vars
    /\ UNCHANGED table_vars
    /\ UNCHANGED run_vars
    /\ UNCHANGED pipeline_vars

\* The ephemeris returns longitude_deg_sidereal for the timestamp.
ComputeAstroForTimestamp ==
    /\ astro_state = None
    /\ astro_state' = Some(_compute_astro_for_timestamp(
                                query_ts, HAS_SWISSEPH, config.anchor,
                                [t \in {query_ts} |-> longitude_deg_sidereal]))
    /\ UNCHANGED <<HAVE_SWISSEPH, longitude_deg_sidereal, query_ts, sub_ssl_info,
                   frame_dasha_lord>>
    /\ UNCHANGED <<dasha_vars, engine_vars, frame_vars>>
    /\ UNCHANGED sunrise_vars
    /\ UNCHANGED table_vars
    /\ UNCHANGED run_vars
    /\ UNCHANGED pipeline_vars

NextKp == ComputeSubSsl \/ GetStartLordForFrame \/ ComputeAstroForTimestamp

SpecKp == InitKp /\ [][NextKp]_vars

(***************************************************************************)
(* SpecFrames: the three frames of one query date, with or without Swiss   *)
(* Ephemeris: compute_year_frame, compute_month_frame and                  *)
(* compute_week_frame are each called once on get_draw_time(date), in any  *)
(* order.                                                                  *)
(***************************************************************************)
YearInputs == {2023 + i : i \in 0..MaxYearOffset}

DateInputs ==
    {[year |-> y, month |-> m, day |-> dd] :
        y \in YearInputs, m \in 1..12, dd \in 1..31} \ {d \in
            [year : YearInputs, month : 1..12, day : 29..31] :
                d.day > days_in_month(d.year, d.month)}

\* The ephemeris gives an early or a late sunrise, or raises.
RiseOutcomes == {None, Some(5 * 60 + 30), Some(7 * 60 + 45)}

InitFrames ==
    /\ DashaIdle
    /\ EngineIdle
    /\ HAVE_SWISSEPH \in BOOLEAN
    /\ longitude_deg_sidereal = 0
    /\ query_ts = 0
    /\ sub_ssl_info = None
    /\ frame_dasha_lord = None
    /\ astro_state = None
    /\ query_date \in DateInputs
    /\ swe_rise \in (IF HAVE_SWISSEPH THEN [BOOLEAN -> RiseOutcomes] ELSE {NoEphemeris})
    /\ year_frame = None
    /\ month_frame = None
    /\ week_frame = None
    /\ SunriseIdle
    /\ TablesIdle
    /\ RunIdle
    /\ PipelineIdle

ComputeYearFrame ==
    /\ year_frame = None
    /\ year_frame' = Some(compute_year_frame(get_draw_time(query_date),
                                             HAVE_SWISSEPH, swe_rise))
    /\ UNCHANGED <<query_date, swe_rise, month_frame, week_frame>>
    /\ UNCHANGED <<dasha_vars, engine_vars, kp_vars>>
    /\ UNCHANGED sunrise_vars
    /\ UNCHANGED table_vars
    /\ UNCHANGED run_vars
    /\ UNCHANGED pipeline_vars

ComputeMonthFrame ==
    /\ month_frame = None
    /\ month_frame' = Some(compute_month_frame(get_draw_time(query_date),
                                               HAVE_SWISSEPH, swe_rise))
    /\ UNCHANGED <<query_date, swe_rise, year_frame, week_frame>>
    /\ UNCHANGED <<dasha_vars, engine_vars, kp_vars>>
    /\ UNCHANGED sunrise_vars
    /\ UNCHANGED table_vars
    /\ UNCHANGED run_vars
    /\ UNCHANGED pipeline_vars

ComputeWeekFrame ==
    /\ week_frame = None
    /\ week_frame' = Some(compute_week_frame(get_draw_time(query_date),
                                             HAVE_SWISSEPH, swe_rise))
    /\ UNCHANGED <<query_date, swe_rise, year_frame, month_frame>>
    /\ UNCHANGED <<dasha_vars, engine_vars, kp_vars>>
    /\ UNCHANGED sunrise_vars
    /\ UNCHANGED table_vars
    /\ UNCHANGED run_vars
    /\ UNCHANGED pipeline_vars

NextFrames == ComputeYearFrame \/ ComputeMonthFrame \/ ComputeWeekFrame

SpecFrames == InitFrames /\ [][NextFrames]_vars

(***************************************************************************)
(* SpecSunrise: one call of get_sunrise on a date, with or without Swiss   *)
(* Ephemeris, the ephemeris answering or raising.                          *)
(***************************************************************************)
InitSunrise ==
    /\ DashaIdle
    /\ EngineIdle
    /\ HAVE_SWISSEPH \in BOOLEAN
    /\ longitude_deg_sidereal = 0
    /\ query_ts = 0
    /\ sub_ssl_info = None
    /\ frame_dasha_lord = None
    /\ astro_state = None
    /\ query_date \in DateInputs
    /\ swe_rise \in (IF HAVE_SWISSEPH THEN [BOOLEAN -> RiseOutcomes] ELSE {NoEphemeris})
    /\ year_frame = None
    /\ month_frame = None
    /\ week_frame = None
    /\ sunrise_call = None
    /\ TablesIdle
    /\ RunIdle
    /\ PipelineIdle

GetSunrise ==
    /\ sunrise_call = None
    /\ sunrise_call' = Some(get_sunrise_call(query_date, HAVE_SWISSEPH, swe_rise))
    /\ UNCHANGED <<dasha_vars, engine_vars, kp_vars, frame_vars>>
    /\ UNCHANGED table_vars
    /\ UNCHANGED run_vars
    /\ UNCHANGED pipeline_vars

NextSunrise == GetSunrise

SpecSunrise == InitSunrise /\ [][NextSunrise]_vars

(***************************************************************************)
(* SpecTables: any sequence of up to MaxCalls operations that read the     *)
(* module-level tables: rotation, subdivision, hierarchy build and Sub/SSL *)
(* computation.  The tables are Python lists and a dict, which an          *)
(* operation could change in place.                                        *)
(***************************************************************************)
InitTables ==
    /\ DashaIdle
    /\ EngineIdle
    /\ KpIdle
    /\ FramesIdle
    /\ SunriseIdle
    /\ tables = ModuleTables
    /\ table_calls = 0
    /\ last_call = None
    /\ RunIdle
    /\ PipelineIdle

CallRotateOrderTo ==
    /\ table_calls < MaxCalls
    /\ \E lord \in LordInputs :
           /\ last_call' = Some([op |-> "rotate_order_to", result |-> rotate_order_to(lord)])
           /\ tables' = tables_after_rotate_order_to(tables, lord)
    /\ table_calls' = table_calls + 1
    /\ UNCHANGED <<dasha_vars, engine_vars, kp_vars, frame_vars, sunrise_vars>>
    /\ UNCHANGED run_vars
    /\ UNCHANGED pipeline_vars

\* build_maha_segments and build_sub_segments only read the tables.
CallBuildSegments ==
    /\ table_calls < MaxCalls
    /\ \E lord \in Range(DASHA_ORDER), span \in {0, MaxSpan} :
           last_call' = Some([op |-> "build_segments",
                              result |-> <<build_maha_segments(0, span, lord),
                                           build_sub_segments(0, span)>>])
    /\ table_calls' = table_calls + 1
    /\ UNCHANGED tables
    /\ UNCHANGED <<dasha_vars, engine_vars, kp_vars, frame_vars, sunrise_vars>>
    /\ UNCHANGED run_vars
    /\ UNCHANGED pipeline_vars

CallComputeLevels ==
    /\ table_calls < MaxCalls
    /\ \E lord \in Range(DASHA_ORDER), t \in {0, MaxSpan \div 2} :
           last_call' = Some([op |-> "compute_active_vimshottari_levels",
                              result |-> compute_active_vimshottari_levels(
                                             0, MaxSpan, t, lord).levels])
    /\ table_calls' = table_calls + 1
    /\ UNCHANGED tables
    /\ UNCHANGED <<dasha_vars, engine_vars, kp_vars, frame_vars, sunrise_vars>>
    /\ UNCHANGED run_vars
    /\ UNCHANGED pipeline_vars

CallComputeSubSsl ==
    /\ table_calls < MaxCalls
    /\ \E i \in 0..35 :
           last_call' = Some([op |-> "compute_sub_ssl_for_longitude",
                              result |-> compute_sub_ssl_for_longitude(
                                             i * 10 * UnitsPerDegree
                                                 + UnitsPerDegree \div 8)])
    /\ table_calls' = table_calls + 1
    /\ UNCHANGED tables
    /\ UNCHANGED <<dasha_vars, engine_vars, kp_vars, frame_vars, sunrise_vars>>
    /\ UNCHANGED run_vars
    /\ UNCHANGED pipeline_vars

NextTables ==
    CallRotateOrderTo \/ CallBuildSegments \/ CallComputeLevels \/ CallComputeSubSsl

SpecTables == InitTables /\ [][NextTables]_vars

(***************************************************************************)
(* SpecRunTask: one call of Orchestrator.run_task, stage by stage.  The    *)
(* agent classes are outside this repository: what the attribute named by  *)
(* task_name does is left open (agent_task): there is no such attribute,   *)
(* calling it raises, or it returns one of the values of HandlerOutputs    *)
(* (output is read only when it returns).                                  *)
(***************************************************************************)
AgentNames == {"pattern", "guardian", "trend", "forecast", "nobody"}

TaskNames == {"run", "analyze", "Shutdown", "reset", "WIPE", "danger"}

PayloadInputs ==
    {NoneValue,
     [type |-> "dict", keys |-> {}, result |-> "None"],
     [type |-> "dict", keys |-> {"profile"}, result |-> "None"],
     [type |-> "dict", keys |-> {"data"}, result |-> "None"]}

HandlerOutputs ==
    {NoneValue,
     [type |-> "list", keys |-> {}, result |-> "None"],
     [type |-> "dict", keys |-> {"status"}, result |-> "None"],
     [type |-> "dict", keys |-> {"result"}, result |-> "None"],
     [type |-> "dict", keys |-> {"result", "meta"}, result |-> "value"]}

AgentTasks ==
    {[does |-> "AttributeError", output |-> NoneValue],
     [does |-> "raises", output |-> NoneValue]}
        \cup {[does |-> "returns", output |-> o] : o \in HandlerOutputs}

InitRunTask ==
    /\ DashaIdle
    /\ EngineIdle
    /\ KpIdle
    /\ FramesIdle
    /\ SunriseIdle
    /\ TablesIdle
    /\ run_agent_name \in AgentNames
    /\ run_task_name \in TaskNames
    /\ run_payload \in PayloadInputs
    /\ agent_task \in AgentTasks
    /\ run_pc = "call"
    /\ stage_calls = <<>>
    /\ handler_output = None
    /\ run_returned = None
    /\ PipelineIdle

RunFrame == <<run_agent_name, run_task_name, run_payload, agent_task>>

OtherThanRun ==
    <<dasha_vars, engine_vars, kp_vars, frame_vars, sunrise_vars, table_vars>>

\* Lines 168-171: the agent is looked up in the registry.
RunTaskLookup ==
    /\ run_pc = "call"
    /\ IF run_agent_name \notin Registry
       THEN /\ run_pc' = "returned"
            /\ run_returned' = Some([ok |-> FALSE, error |-> "no agent"])
       ELSE /\ run_pc' = "precheck"
            /\ run_returned' = run_returned
    /\ UNCHANGED <<RunFrame, stage_calls, handler_output, OtherThanRun>>
    /\ UNCHANGED pipeline_vars

\* Lines 176-181.
RunTaskPrecheck ==
    /\ run_pc = "precheck"
    /\ stage_calls' = Append(stage_calls, "precheck")
    /\ LET go == after_precheck(precheck(run_agent_name, run_task_name, run_payload))
       IN  /\ run_pc' = go.at
           /\ run_returned' = go.returned
    /\ UNCHANGED <<RunFrame, handler_output, OtherThanRun>>
    /\ UNCHANGED pipeline_vars

\* Lines 186-192: getattr(agent, task_name).
RunTaskGetattr ==
    /\ run_pc = "getattr"
    /\ IF agent_task.does = "AttributeError"
       THEN /\ run_pc' = "returned"
            /\ run_returned' = Some([ok |-> FALSE, error |-> "no task"])
       ELSE /\ run_pc' = "execute"
            /\ run_returned' = run_returned
    /\ UNCHANGED <<RunFrame, stage_calls, handler_output, OtherThanRun>>
    /\ UNCHANGED pipeline_vars

\* Lines 194-201: handler(payload).
RunTaskExecute ==
    /\ run_pc = "execute"
    /\ stage_calls' = Append(stage_calls, "handler")
    /\ LET attempt == IF agent_task.does = "raises"
                      THEN [raised |-> TRUE, output |-> None]
                      ELSE [raised |-> FALSE, output |-> Some(agent_task.output)]
           go == after_execution(attempt)
       IN  /\ handler_output' = attempt.output
           /\ run_pc' = go.at
           /\ run_returned' = go.returned
    /\ UNCHANGED <<RunFrame, OtherThanRun>>
    /\ UNCHANGED pipeline_vars

\* Lines 206-220.
RunTaskPostcheck ==
    /\ run_pc = "postcheck"
    /\ stage_calls' = Append(stage_calls, "postcheck")
    /\ run_returned' =
           after_postcheck(postcheck(run_agent_name, run_task_name, run_payload,
                                     handler_output[1]),
                           handler_output[1])
    /\ run_pc' = "returned"
    /\ UNCHANGED <<RunFrame, handler_output, OtherThanRun>>
    /\ UNCHANGED pipeline_vars

NextRunTask ==
    \/ RunTaskLookup
    \/ RunTaskPrecheck
    \/ RunTaskGetattr
    \/ RunTaskExecute
    \/ RunTaskPostcheck

SpecRunTask == InitRunTask /\ [][NextRunTask]_vars

(***************************************************************************)
(* SpecPipeline: one call of PipelineRunner.run_pipeline, one iteration of *)
(* its loop at a time.  The registry handed to the runner holds agents 1   *)
(* and 2 in any of the four kinds; the pipeline is None or a list of at    *)
(* most MaxPipeline ids out of 1, 2 and the unregistered 99.  The initial  *)
(* payload carries no marker.  config.snapshot_dir is None, its default.   *)
(***************************************************************************)
VaryingAgents == {1, 2}

AgentKinds == {"ok", "raises", "disabled", "missing"}

RegistryInputs ==
    {[id \in RegistryIds |-> IF id \in VaryingAgents THEN k[id] ELSE DefaultRegistry[id]] :
        k \in [VaryingAgents -> AgentKinds]}

PipelineIds == {1, 2, 99}

PipelineInputs ==
    {None} \cup {Some(p) : p \in UNION {[1..n -> PipelineIds] : n \in 0..MaxPipeline}}

MandatoryInputs == {None, Some({1}), Some({1, 2}), Some({2, 5})}

InitPipeline ==
    /\ DashaIdle
    /\ EngineIdle
    /\ KpIdle
    /\ FramesIdle
    /\ SunriseIdle
    /\ TablesIdle
    /\ RunIdle
    /\ arg_pipeline \in PipelineInputs
    /\ arg_mandatory \in MandatoryInputs
    /\ debug_mode \in BOOLEAN
    /\ registry_agents \in RegistryInputs
    /\ pipeline = <<>>
    /\ mandatory_agents = {}
    /\ next_index = 1
    /\ current_payload = <<>>
    /\ results = <<>>
    /\ agent_runs = <<>>
    /\ report = None
    /\ pipeline_pc = "call"

PipelineFrame == <<arg_pipeline, arg_mandatory, debug_mode, registry_agents>>

OtherThanPipeline ==
    <<dasha_vars, engine_vars, kp_vars, frame_vars, sunrise_vars, table_vars,
      run_vars>>

\* Lines 484-496.
PipelineEnter ==
    /\ pipeline_pc = "call"
    /\ pipeline' = pipeline_or_default(arg_pipeline)
    /\ mandatory_agents' =
           mandatory_or_default(arg_mandatory, pipeline_or_default(arg_pipeline))
    /\ pipeline_pc' = "loop"
    /\ UNCHANGED <<PipelineFrame, next_index, current_payload, results, agent_runs,
                   report, OtherThanPipeline>>

\* Lines 498-509: the agent is not registered.
IterateUnregistered ==
    /\ pipeline_pc = "loop"
    /\ next_index <= Len(pipeline)
    /\ registry_agents[pipeline[next_index]] = "missing"
    /\ results' = Append(results, unregistered_result(pipeline[next_index]))
    /\ next_index' = next_index + 1
    /\ UNCHANGED <<PipelineFrame, pipeline, mandatory_agents, current_payload,
                   agent_runs, report, pipeline_pc, OtherThanPipeline>>

\* Lines 511-514: the agent is disabled.
IterateDisabled ==
    /\ pipeline_pc = "loop"
    /\ next_index <= Len(pipeline)
    /\ registry_agents[pipeline[next_index]] = "disabled"
    /\ next_index' = next_index + 1
    /\ UNCHANGED <<PipelineFrame, pipeline, mandatory_agents, current_payload,
                   results, agent_runs, report, pipeline_pc, OtherThanPipeline>>

\* Lines 516-547: the agent is run.
IterateRun ==
    /\ pipeline_pc = "loop"
    /\ next_index <= Len(pipeline)
    /\ registry_agents[pipeline[next_index]] \in {"ok", "raises"}
    /\ LET agent_id == pipeline[next_index]
           ran == run_agent(registry_agents[agent_id], agent_id, current_payload,
                            debug_mode)
       IN  /\ current_payload' = ran.payload
           /\ results' = Append(results, ran.result)
           /\ agent_runs' = Append(agent_runs,
                                   [agent_id |-> agent_id,
                                    received |-> current_payload,
                                    returned |-> ran.returned])
    /\ next_index' = next_index + 1
    /\ UNCHANGED <<PipelineFrame, pipeline, mandatory_agents, report, pipeline_pc,
                   OtherThanPipeline>>

\* Lines 549-569: the report is built and returned.
PipelineReturn ==
    /\ pipeline_pc = "loop"
    /\ next_index > Len(pipeline)
    /\ report' = Some([success |-> report_success(results, mandatory_agents),
                       results |-> results,
                       pipeline |-> pipeline])
    /\ pipeline_pc' = "returned"
    /\ UNCHANGED <<PipelineFrame, pipeline, mandatory_agents, next_index,
                   current_payload, results, agent_runs, OtherThanPipeline>>

NextPipeline ==
    \/ PipelineEnter
    \/ IterateUnregistered
    \/ IterateDisabled
    \/ IterateRun
    \/ PipelineReturn

SpecPipeline == InitPipeline /\ [][NextPipeline]_vars

(***************************************************************************)
(* SpecSwitches: one call of build_snapshots by an engine configured with  *)
(* any combination of track_prev_next and track_distances, without an      *)
(* ephemeris.                                                              *)
(***************************************************************************)
SwitchConfigs ==
    {[SnapshotEngineConfig EXCEPT !.track_prev_next = links, !.track_distances = dists] :
        links \in BOOLEAN, dists \in BOOLEAN}

InitSwitches ==
    /\ DashaIdle
    /\ KpIdle
    /\ FramesIdle
    /\ SunriseIdle
    /\ TablesIdle
    /\ RunIdle
    /\ PipelineIdle
    /\ HAS_SWISSEPH = FALSE
    /\ config \in SwitchConfigs
    /\ moon_lon = [ts \in TsSamples |-> 0]
    /\ candles = <<>>
    /\ snapshots = <<>>
    /\ engine_pc = "ready"

NextSwitches == BuildSnapshots

SpecSwitches == InitSwitches /\ [][NextSwitches]_vars

(***************************************************************************)
(* Vocabulary of the properties                                            *)
(***************************************************************************)
Done == pc = "done"

Levels == 1..Len(LevelNames)

\* The interval subdivided at level k: the frame, or the active segment above.
ParentStart(k) == IF k = 1 THEN frame_start ELSE levels[k - 1].start
ParentEnd(k) == IF k = 1 THEN frame_end ELSE levels[k - 1].end
ParentSpan(k) == ParentEnd(k) - ParentStart(k)

Span(seg) == seg.end - seg.start

RECURSIVE SumSpans(_, _)
SumSpans(segs, n) == IF n = 0 THEN 0 ELSE SumSpans(segs, n - 1) + Span(segs[n])

\* Position in the segment list of level k of the segment returned as active.
ActiveIndex(k) ==
    CHOOSE i \in DOMAIN level_segments[k] : level_segments[k][i].lord = levels[k].lord

\* The lord n positions after l in the canonical cycle.
CycleAfter(l, n) ==
    DASHA_ORDER[((IndexOf(DASHA_ORDER, l) - 1 + n) % Len(DASHA_ORDER)) + 1]

Lords(segs) == [i \in DOMAIN segs |-> segs[i].lord]

\* C1: the nine segments of every subdivision of a parent with end >= start
\* are contiguous and cover the parent exactly: first start = parent start,
\* each start = previous end, last end = parent end, spans sum to the span.
C1_CoverExact ==
    Done =>
        \A k \in Levels :
            ParentEnd(k) >= ParentStart(k) =>
                LET segs == level_segments[k]
                IN  /\ Len(segs) = 9
                    /\ segs[1].start = ParentStart(k)
                    /\ \A i \in 2..9 : segs[i].start = segs[i - 1].end
                    /\ segs[9].end = ParentEnd(k)
                    /\ SumSpans(segs, 9) = ParentSpan(k)

\* A frame whose nine rounded durations do not add up to the frame's span,
\* so that the forced end of the last segment absorbed a drift.
C1_Witness ==
    /\ Done
    /\ frame_end > frame_start
    /\ LET last == level_segments[1][9]
       IN  Span(last) # duration_micros(frame_end - frame_start, DASHA_YEARS[last.lord])

\* C2 (as claimed): for a query inside the frame, at every level after MAHA
\* the nine children are ordered
\* by the canonical cycle rotated to the lord of the parent's active segment.
C2_ChildrenRotatedToParentLord ==
    (Done /\ frame_start <= draw_time /\ draw_time < frame_end) =>
        \A k \in 2..Len(LevelNames) :
            Lords(level_segments[k]) = rotate_order_to(levels[k - 1].lord)

\* C3 (as claimed): in a frame of positive span, find_interval returns the
\* last segment for a query at
\* the parent's end and the first segment for a query before the parent's
\* start.
C3_LocateEndAndBeforeStart ==
    (Done /\ frame_end > frame_start) =>
        \A k \in Levels :
            /\ draw_time = ParentEnd(k) => ActiveIndex(k) = 9
            /\ draw_time < ParentStart(k) => ActiveIndex(k) = 1

\* C4 (as claimed): half-open policy in a frame of positive span.  A segment containing the query is the
\* one returned; a query on the boundary between child i and a child i+1 of
\* positive span goes to child i+1 and never to child i; the last segment is
\* returned without containing the query only when the query is at or after
\* the last segment's end.
C4_HalfOpenPolicy ==
    (Done /\ frame_end > frame_start) =>
        \A k \in Levels :
            LET segs == level_segments[k]
                a == ActiveIndex(k)
            IN  /\ \A i \in 1..9 :
                       (segs[i].start <= draw_time /\ draw_time < segs[i].end) => a = i
                /\ \A i \in 1..8 :
                       draw_time = segs[i].end =>
                           /\ a # i
                           /\ segs[i + 1].start < segs[i + 1].end => a = i + 1
                /\ (a = 9 /\ ~(segs[9].start <= draw_time /\ draw_time < segs[9].end))
                       => draw_time >= segs[9].end

C6_MahaRotatedToStartLord ==
    Done =>
        LET segs == level_segments[1]
        IN  /\ segs[1].start = frame_start
            /\ segs[1].lord = start_lord
            /\ \A i \in 1..9 : segs[i].lord = CycleAfter(start_lord, i - 1)

\* A frame whose start lord is not the head of the canonical order, so that
\* the cycle wraps around inside the MAHA list.
C6_Witness ==
    /\ Done
    /\ start_lord = "SATURN"
    /\ level_segments[1][3].lord = "KETU"

\* C7: for a canonical start lord the rotation is a 9-element list beginning
\* with it, containing every lord once and preserving every cyclic successor,
\* and it is the order of the MAHA list; for any other name the call fails
\* and nothing is returned.
C7_RotationOrError ==
    LET r == rotate_order_to(start_lord)
    IN  /\ start_lord \in Range(DASHA_ORDER) =>
               /\ r # "ValueError"
               /\ Len(r) = 9
               /\ r[1] = start_lord
               /\ Range(r) = Range(DASHA_ORDER)
               /\ \A i \in 1..9 : r[(i % 9) + 1] = CycleAfter(r[i], 1)
               /\ pc # "ValueError"
               /\ Done => Lords(level_segments[1]) = r
        /\ start_lord \notin Range(DASHA_ORDER) =>
               /\ r = "ValueError"
               /\ ~Done
               /\ level_segments = <<>>
               /\ levels = <<>>

\* The call with an unknown start lord has been made and has raised.
C7_Witness == pc = "ValueError" /\ start_lord = "PLUTO"

\* The value clamp(remaining / duration, 0, 1) for a non-zero duration.
ClampedRatio(remaining, duration) ==
    LET n == IF duration < 0 THEN -remaining ELSE remaining
        d == Abs(duration)
    IN  IF n < 0 THEN Rat(0, 1) ELSE IF n > d THEN Rat(1, 1) ELSE Rat(n, d)

\* C8: every level has duration = end - start, remaining = max(0, end - query)
\* and remaining_fraction = clamp(remaining / duration, 0, 1), 0 for a zero
\* duration.
C8_DurationRemainingFraction ==
    Done =>
        \A k \in Levels :
            LET info == levels[k]
            IN  /\ info.duration = info.end - info.start
                /\ info.remaining = (IF info.end - draw_time > 0 THEN info.end - draw_time ELSE 0)
                /\ info.remaining_fraction[2] > 0
                /\ IF info.duration = 0
                   THEN RatEq(info.remaining_fraction, Rat(0, 1))
                   ELSE RatEq(info.remaining_fraction,
                              ClampedRatio(info.remaining, info.duration))
                /\ ~RatLt(info.remaining_fraction, Rat(0, 1))
                /\ ~RatLt(Rat(1, 1), info.remaining_fraction)

\* A query before the frame: the MAHA level's remaining time exceeds its
\* duration and the fraction is clamped to 1.
C8_Witness ==
    /\ Done
    /\ draw_time < frame_start
    /\ levels[1].duration > 0
    /\ levels[1].remaining > levels[1].duration
    /\ levels[1].remaining_fraction = Rat(1, 1)

\* C9: for the active segment of a level, of positive duration, the
\* remaining fraction is 1 for a query at the segment's start, strictly
\* decreases as the query advances within the segment, and is 0 at its end.
C9_FractionStrictlyDecreasing ==
    Done =>
        \A k \in Levels :
            LET seg == [lord |-> levels[k].lord, start |-> levels[k].start, end |-> levels[k].end]
                f(q) == level_info(seg, q).remaining_fraction
            IN  seg.end > seg.start =>
                    /\ RatEq(f(seg.start), Rat(1, 1))
                    /\ RatEq(f(seg.end), Rat(0, 1))
                    /\ \A q1, q2 \in seg.start..seg.end : q1 < q2 => RatLt(f(q2), f(q1))
                    /\ (seg.start <= draw_time /\ draw_time <= seg.end)
                           => levels[k].remaining_fraction = f(draw_time)

\* A query strictly inside an active MAHA segment of several microseconds.
C9_Witness ==
    /\ Done
    /\ levels[1].duration >= 3
    /\ levels[1].start < draw_time
    /\ draw_time < levels[1].end - 1

Built == engine_pc = "built"

\* The smallest index after i whose astro field differs from record i's, or
\* None when there is none.
NextChange(field, i) ==
    LET later == {j \in (i + 1)..Len(snapshots) :
                     snapshots[j].astro[field] # snapshots[i].astro[field]}
    IN  IF later = {} THEN None ELSE Some(CHOOSE j \in later : \A m \in later : j <= m)

ExpectedDistance(field, i) ==
    IF NextChange(field, i) = None
    THEN None
    ELSE Some(Rat(snapshots[NextChange(field, i)[1]].candle.timestamp
                      - snapshots[i].candle.timestamp, 60))

SameDistance(d, e) ==
    IF d = None \/ e = None THEN d = e ELSE RatEq(d[1], e[1])

\* C10: for every record i of the time-sorted list, dist_to_next_sub_change
\* is the time in minutes to the first later record whose sub differs, none
\* when there is no such record, and likewise dist_to_next_ssl_change with
\* ssl; the last record has none for both, and a record right before a
\* change has the interval to its successor.
C10_DistanceToNextChange ==
    Built =>
        LET n == Len(snapshots)
        IN  /\ \A i \in 1..n :
                   /\ SameDistance(snapshots[i].dist_to_next_sub_change,
                                   ExpectedDistance("sub", i))
                   /\ SameDistance(snapshots[i].dist_to_next_ssl_change,
                                   ExpectedDistance("ssl", i))
            /\ n > 0 => /\ snapshots[n].dist_to_next_sub_change = None
                        /\ snapshots[n].dist_to_next_ssl_change = None
            /\ \A i \in 1..(n - 1) :
                   /\ snapshots[i + 1].astro.sub # snapshots[i].astro.sub =>
                          snapshots[i].dist_to_next_sub_change
                              = Some(Rat(snapshots[i + 1].candle.timestamp
                                             - snapshots[i].candle.timestamp, 60))
                   /\ snapshots[i + 1].astro.ssl # snapshots[i].astro.ssl =>
                          snapshots[i].dist_to_next_ssl_change
                              = Some(Rat(snapshots[i + 1].candle.timestamp
                                             - snapshots[i].candle.timestamp, 60))

\* Three records, the first two with the same sub and the third with another:
\* the first record's distance is carried over its unchanged successor.
C10_Witness ==
    /\ Built
    /\ Len(snapshots) = 3
    /\ snapshots[1].astro.sub = snapshots[2].astro.sub
    /\ snapshots[3].astro.sub # snapshots[2].astro.sub
    /\ snapshots[1].candle.timestamp < snapshots[2].candle.timestamp
    /\ snapshots[1].dist_to_next_sub_change
           = Some(Rat(snapshots[3].candle.timestamp - snapshots[1].candle.timestamp, 60))

FallbackSslLabels ==
    <<"KE-SSL", "VE-SSL", "SU-SSL", "MO-SSL", "MA-SSL", "RA-SSL", "JU-SSL",
      "SA-SSL", "ME-SSL">>

MinuteIndex == (query_ts \div 60) % 9

\* C12: without an ephemeris the AstroState depends on the timestamp alone
\* (not on the anchor, not on any longitude): its sub is the canonical lord
\* at index floor(unix_seconds / 60) mod 9, its ssl the label at the same
\* index of the SSL labels, which share no label with the sub labels; a
\* second computation for the same timestamp returns the same sub and ssl.
C12_FallbackDeterministic ==
    (astro_state # None /\ ~HAS_SWISSEPH) =>
        LET again == _compute_astro_for_timestamp(query_ts, FALSE, "moon", <<>>)
        IN  /\ astro_state[1].sub = KP_DASHA_ORDER[MinuteIndex + 1]
            /\ astro_state[1].ssl = FallbackSslLabels[MinuteIndex + 1]
            /\ Range(FallbackSslLabels) \cap Range(KP_DASHA_ORDER) = {}
            /\ again.sub = astro_state[1].sub
            /\ again.ssl = astro_state[1].ssl

\* A timestamp in minute 9 computed with the lagna anchor: the index wraps
\* to the first lord.
C12_Witness ==
    /\ astro_state # None
    /\ ~HAS_SWISSEPH
    /\ query_ts \div 60 = 9
    /\ config.anchor = "lagna"
    /\ astro_state[1].sub = "KE"
    /\ astro_state[1].ssl = "KE-SSL"

\* The longitude handed to the KP functions, brought into [0, 360), and the
\* Nakshatra it lies in by exact arithmetic.
NormalizedLon == longitude_deg_sidereal % Circle

ExactNakshatra == NormalizedLon \div NAKS_SPAN_DEG

KpYears(lord) == KP_DASHA_YEARS[IndexOf(KP_DASHA_ORDER, lord)]

\* The i-th lord of the cycle that begins at first.
KpLordAt(first, i) ==
    KP_DASHA_ORDER[((IndexOf(KP_DASHA_ORDER, first) + i - 2) % 9) + 1]

\* Where the i-th segment starts inside a parent of the given span, the
\* segments being parent_span * weight / 120 long in the cycle from first.
RECURSIVE KpSegmentStart(_, _, _)
KpSegmentStart(first, parent_span, i) ==
    IF i = 1
    THEN 0
    ELSE KpSegmentStart(first, parent_span, i - 1)
             + (parent_span * KpYears(KpLordAt(first, i - 1))) \div 120

\* The segments of that subdivision that contain pos, start included and
\* end excluded.
KpSegmentsContaining(first, parent_span, pos) ==
    {i \in 1..9 : /\ KpSegmentStart(first, parent_span, i) <= pos
                  /\ pos < KpSegmentStart(first, parent_span, i + 1)}

\* C13 (as claimed): a longitude on the circle exactly at the start of a
\* Nakshatra yields that Nakshatra's star lord, the canonical lord at its
\* index mod 9, and a sub_lord equal to it; at longitude 0 the star lord is
\* the first canonical lord.
C13_SubLordAtNakshatraStart ==
    (/\ sub_ssl_info # None
     /\ longitude_deg_sidereal \in 0..(Circle - 1)
     /\ longitude_deg_sidereal % NAKS_SPAN_DEG = 0) =>
        /\ sub_ssl_info[1].star_lord = KP_DASHA_ORDER[(ExactNakshatra % 9) + 1]
        /\ sub_ssl_info[1].sub_lord = sub_ssl_info[1].star_lord
        /\ longitude_deg_sidereal = 0 => sub_ssl_info[1].star_lord = KP_DASHA_ORDER[1]

\* C14 (as claimed): for every longitude, negative and beyond 360 degrees
\* included, nak_index is floor(normalized / (360 / 27)), lies in 0..26 and
\* gives the star lord canonical[nak_index mod 9]; the start lord of a frame
\* whose Moon stands at that longitude is the lord at the same place of the
\* canonical order.
C14_NakshatraIndexAgrees ==
    (sub_ssl_info # None /\ frame_dasha_lord # None /\ HAVE_SWISSEPH) =>
        /\ sub_ssl_info[1].nak_index = ExactNakshatra
        /\ sub_ssl_info[1].nak_index \in 0..26
        /\ sub_ssl_info[1].star_lord
               = KP_DASHA_ORDER[(sub_ssl_info[1].nak_index % 9) + 1]
        /\ IndexOf(DASHA_ORDER, frame_dasha_lord[1])
               = IndexOf(KP_DASHA_ORDER, sub_ssl_info[1].star_lord)

\* C15 (as claimed): sub_lord owns the one segment containing the position
\* inside the Nakshatra, the segments being (360 / 27) * weight / 120 long in
\* the cycle from the star lord; ssl owns the one segment containing the
\* position inside the Sub, the segments being sub_span * weight / 120 long
\* in the cycle from the sub lord itself; 0 <= sub_pos_deg < sub_span_deg
\* and ssl_pos_deg >= 0.
C15_SubAndSslOwnTheirSegment ==
    sub_ssl_info # None =>
        LET r == sub_ssl_info[1]
            subs == KpSegmentsContaining(r.star_lord, NAKS_SPAN_DEG, r.nak_pos_deg)
            ssls == KpSegmentsContaining(r.sub_lord, r.sub_span_deg, r.sub_pos_deg)
        IN  /\ Cardinality(subs) = 1
            /\ \A i \in subs : r.sub_lord = KpLordAt(r.star_lord, i)
            /\ Cardinality(ssls) = 1
            /\ \A i \in ssls : r.ssl = KpLordAt(r.sub_lord, i)
            /\ 0 <= r.sub_pos_deg
            /\ r.sub_pos_deg < r.sub_span_deg
            /\ r.ssl_pos_deg >= 0

\* The rearrangements of a batch of n candles.
Rearrangements(n) ==
    {f \in [1..n -> 1..n] : \A i, j \in 1..n : i # j => f[i] # f[j]}

Reordered(batch, f) == [i \in 1..Len(batch) |-> batch[f[i]]]

Ascending ==
    \A i \in 1..(Len(snapshots) - 1) :
        snapshots[i].candle.timestamp <= snapshots[i + 1].candle.timestamp

\* C16 (as claimed): one record per input candle, in ascending order of
\* timestamp; every reordering of the same batch gives the same output
\* sequence; an empty batch gives an empty list.
C16_AnyOrderSameOutput ==
    Built =>
        /\ Len(snapshots) = Len(candles)
        /\ \E f \in Rearrangements(Len(candles)) :
               \A i \in 1..Len(candles) : snapshots[i].candle = candles[f[i]]
        /\ Ascending
        /\ \A f \in Rearrangements(Len(candles)) :
               build_snapshots(Reordered(candles, f), config, HAS_SWISSEPH, moon_lon)
                   = snapshots
        /\ candles = <<>> => snapshots = <<>>

\* C16 (amended): one record per input candle, in ascending order of
\* timestamp, candles of equal timestamp in the order of the input; every
\* reordering of a batch whose timestamps are pairwise different gives the
\* same output sequence; an empty batch gives an empty list.
C16_SortedStable ==
    Built =>
        /\ Len(snapshots) = Len(candles)
        /\ \E f \in Rearrangements(Len(candles)) :
               /\ \A i \in 1..Len(candles) : snapshots[i].candle = candles[f[i]]
               /\ \A i, j \in 1..Len(candles) :
                      (i < j /\ candles[f[i]].timestamp = candles[f[j]].timestamp)
                          => f[i] < f[j]
        /\ Ascending
        /\ (\A i, j \in 1..Len(candles) :
                i # j => candles[i].timestamp # candles[j].timestamp)
               => \A f \in Rearrangements(Len(candles)) :
                      build_snapshots(Reordered(candles, f), config, HAS_SWISSEPH,
                                      moon_lon) = snapshots
        /\ candles = <<>> => snapshots = <<>>

\* Three candles of different timestamps handed over latest first.
C16_Witness ==
    /\ Built
    /\ Len(candles) = 3
    /\ candles[1].timestamp > candles[2].timestamp
    /\ candles[2].timestamp > candles[3].timestamp
    /\ snapshots[1].candle = candles[3]
    /\ snapshots[3].candle = candles[1]

\* C17: with the default configuration every record's prev is the astro
\* state of the record before it, none for the first, and its next the
\* astro state of the record after it, none for the last.
C17_PrevNextLinks ==
    (Built /\ config = SnapshotEngineConfig) =>
        \A i \in 1..Len(snapshots) :
            /\ snapshots[i].prev
                   = IF i = 1 THEN None ELSE Some(snapshots[i - 1].astro)
            /\ snapshots[i].next
                   = IF i = Len(snapshots) THEN None ELSE Some(snapshots[i + 1].astro)

\* Three records whose first and last astro states differ: the middle one is
\* linked to both neighbours, the outer ones to one.
C17_Witness ==
    /\ Built
    /\ config = SnapshotEngineConfig
    /\ Len(snapshots) = 3
    /\ snapshots[1].astro # snapshots[3].astro
    /\ snapshots[2].prev = Some(snapshots[1].astro)
    /\ snapshots[2].next = Some(snapshots[3].astro)
    /\ snapshots[1].prev = None
    /\ snapshots[3].next = None

\* C18: when the frame is a single instant (end = start), every level has
\* nine segments of zero span at that instant, find_interval returns the
\* last of them whatever the query, and every level reports a remaining
\* fraction of 0.
C18_DegenerateFrame ==
    (Done /\ frame_end = frame_start) =>
        \A k \in Levels :
            /\ Len(level_segments[k]) = 9
            /\ \A i \in 1..9 : /\ level_segments[k][i].start = frame_start
                               /\ level_segments[k][i].end = frame_start
            /\ ActiveIndex(k) = 9
            /\ levels[k].lord = level_segments[k][9].lord
            /\ levels[k].start = frame_start
            /\ levels[k].end = frame_start
            /\ RatEq(levels[k].remaining_fraction, Rat(0, 1))

\* A frame of zero span queried before its instant: time remains until the
\* end of every level but the fraction is 0.
C18_Witness ==
    /\ Done
    /\ frame_end = frame_start
    /\ draw_time < frame_start
    /\ start_lord = "MOON"
    /\ levels[1].lord = "SUN"
    /\ levels[6].remaining > 0
    /\ levels[6].remaining_fraction = Rat(0, 1)

\* The sunrise of a date, as get_sunrise gives it in the current state.
Sunrise(d) == get_sunrise(d, HAVE_SWISSEPH, swe_rise)

FirstOfMonth(y, m) == [year |-> y, month |-> m, day |-> 1]

\* C19: the WEEK frame starts at the sunrise of the Monday on or before the
\* query date and ends at the sunrise of the date 7 calendar days after that
\* Monday; the MONTH and YEAR frames run from the sunrise of the first day of
\* the period to the sunrise of the first day of the next period, the month
\* frame of December ending on 1 January of the following year.
C19_FramesSunriseToSunrise ==
    /\ week_frame # None =>
           LET monday == week_frame[1].start.date
               after == week_frame[1].end.date
           IN  /\ weekday(monday) = 0
               /\ toordinal(query_date) - toordinal(monday) \in 0..6
               /\ toordinal(after) = toordinal(monday) + 7
               /\ week_frame[1].start = Sunrise(monday)
               /\ week_frame[1].end = Sunrise(after)
    /\ month_frame # None =>
           /\ month_frame[1].start
                  = Sunrise(FirstOfMonth(query_date.year, query_date.month))
           /\ month_frame[1].end
                  = Sunrise(IF query_date.month = 12
                            THEN FirstOfMonth(query_date.year + 1, 1)
                            ELSE FirstOfMonth(query_date.year, query_date.month + 1))
    /\ year_frame # None =>
           /\ year_frame[1].start = Sunrise(FirstOfMonth(query_date.year, 1))
           /\ year_frame[1].end = Sunrise(FirstOfMonth(query_date.year + 1, 1))

\* Sunday 31 December 2023 with an ephemeris: the week began on Monday the
\* 25th, and the week, the month and the year all end at the sunrise of
\* 1 January 2024.
C19_Witness ==
    /\ HAVE_SWISSEPH
    /\ swe_rise[FALSE] # None
    /\ query_date = [year |-> 2023, month |-> 12, day |-> 31]
    /\ week_frame # None /\ month_frame # None /\ year_frame # None
    /\ week_frame[1].start.date = [year |-> 2023, month |-> 12, day |-> 25]
    /\ week_frame[1].end.date = FirstOfMonth(2024, 1)
    /\ month_frame[1].end = week_frame[1].end
    /\ year_frame[1].end = week_frame[1].end

\* C20: the start lord of a frame is the Nakshatra-level star lord of the
\* Moon's sidereal longitude at the frame start, the canonical lord at the
\* Nakshatra's index mod 9, whatever the Sub and the SSL there; when the
\* ephemeris is unavailable it is the placeholder KETU and nothing is raised.
C20_StartLordIsStarLord ==
    frame_dasha_lord # None =>
        IF HAVE_SWISSEPH
        THEN frame_dasha_lord[1] = DASHA_ORDER[(ExactNakshatra % 9) + 1]
        ELSE frame_dasha_lord[1] = "KETU"

\* The Moon in the second Nakshatra, in a Sub that is not the star lord's:
\* the start lord is VENUS, the star lord.
C20_Witness ==
    /\ HAVE_SWISSEPH
    /\ frame_dasha_lord = Some("VENUS")
    /\ ExactNakshatra = 1
    /\ sub_ssl_info # None
    /\ sub_ssl_info[1].star_lord = "VE"
    /\ sub_ssl_info[1].sub_lord # "VE"
    /\ sub_ssl_info[1].ssl # "VE"

\* C21: get_sunrise never raises and asks the ephemeris at most once: not at
\* all when it is absent, once when it is present; when the ephemeris is
\* absent or its sunrise computation fails, what comes back is the
\* placeholder, 08:00 local time on the requested date.
C21_SunriseFallsBackOnce ==
    sunrise_call # None =>
        LET call == sunrise_call[1]
            fails == swe_rise[query_date.month \in 4..9] = None
        IN  /\ call.returned # None
            /\ call.swe_calls <= 1
            /\ ~HAVE_SWISSEPH => call.swe_calls = 0
            /\ (~HAVE_SWISSEPH \/ fails) =>
                   call.returned = Some([date |-> query_date, minute |-> 8 * 60])
            /\ (HAVE_SWISSEPH /\ ~fails) => call.returned[1].date = query_date

\* A July date with an ephemeris whose summer computation raises: one
\* attempt, then the placeholder.
C21_Witness ==
    /\ sunrise_call # None
    /\ HAVE_SWISSEPH
    /\ query_date.month = 7
    /\ swe_rise[TRUE] = None
    /\ swe_rise[FALSE] # None
    /\ sunrise_call[1].swe_calls = 1
    /\ sunrise_call[1].returned = Some(fake_sunrise(query_date))


RECURSIVE SumYears(_, _, _)
SumYears(order, years, n) ==
    IF n = 0 THEN 0 ELSE SumYears(order, years, n - 1) + years[order[n]]

RECURSIVE SumWeights(_, _)
SumWeights(weights, n) ==
    IF n = 0 THEN 0 ELSE SumWeights(weights, n - 1) + weights[n]

\* C22: the canonical table has nine positive integer weights that sum to
\* exactly 120, and whatever operations have been called (rotation,
\* subdivision, hierarchy build, Sub/SSL computation) the module tables still
\* hold the canonical order and weights.
C22_CanonicalTablesNeverMutated ==
    /\ tables.order = <<"KETU", "VENUS", "SUN", "MOON", "MARS",
                         "RAHU", "JUPITER", "SATURN", "MERCURY">>
    /\ DOMAIN tables.years = Range(tables.order)
    /\ Len(tables.order) = 9
    /\ \A lord \in Range(tables.order) :
           tables.years[lord] \in Nat \ {0}
    /\ <<tables.years["KETU"], tables.years["VENUS"], tables.years["SUN"],
          tables.years["MOON"], tables.years["MARS"], tables.years["RAHU"],
          tables.years["JUPITER"], tables.years["SATURN"],
          tables.years["MERCURY"]>> = <<7, 20, 6, 10, 7, 18, 16, 19, 17>>
    /\ SumYears(tables.order, tables.years, 9) = 120
    /\ SumYears(tables.order, tables.years, 9) = TOTAL_YEARS
    /\ tables.kp_order = <<"KE", "VE", "SU", "MO", "MA", "RA", "JU", "SA", "ME">>
    /\ tables.kp_years = <<7, 20, 6, 10, 7, 18, 16, 19, 17>>
    /\ SumWeights(tables.kp_years, 9) = 120

\* MaxCalls operations have run, the last one a rotation that returned the
\* order starting at MOON.
C22_Witness ==
    /\ table_calls = MaxCalls
    /\ last_call # None
    /\ last_call[1].op = "rotate_order_to"
    /\ last_call[1].result = <<"MOON", "MARS", "RAHU", "JUPITER", "SATURN",
                               "MERCURY", "KETU", "VENUS", "SUN">>

\* The batch as handed over rises (close above open) at positions 0, 2, ...
\* and falls (close below open) at positions 1, 3, ..., in the order of time.
AlternatingFromRise ==
    /\ \A i \in 1..Len(candles) :
           IF i % 2 = 1 THEN candles[i].close > candles[i].open
                        ELSE candles[i].close < candles[i].open
    /\ \A i \in 1..(Len(candles) - 1) :
           candles[i].timestamp <= candles[i + 1].timestamp

\* C23: every snapshot's trend is up when its candle closes above its open,
\* down when it closes below and neutral when the two are equal, whatever
\* the other candles of the batch are; a batch that alternately rises and
\* falls, starting with a rise, gives the trends up, down, up, ... from
\* index 0 on.
C23_TrendPerCandle ==
    Built =>
        /\ \A i \in 1..Len(snapshots) :
               LET c == snapshots[i].candle
               IN  /\ c.close > c.open => snapshots[i].trend = "up"
                   /\ c.close < c.open => snapshots[i].trend = "down"
                   /\ c.close = c.open => snapshots[i].trend = "neutral"
        /\ AlternatingFromRise =>
               /\ Len(snapshots) = Len(candles)
               /\ \A i \in 1..Len(snapshots) :
                      snapshots[i].trend = IF i % 2 = 1 THEN "up" ELSE "down"

\* Three candles at three different times: rising, falling, rising.
C23_Witness ==
    /\ Built
    /\ AlternatingFromRise
    /\ Len(candles) = 3
    /\ candles[1].timestamp < candles[2].timestamp
    /\ candles[2].timestamp < candles[3].timestamp
    /\ <<snapshots[1].trend, snapshots[2].trend, snapshots[3].trend>>
           = <<"up", "down", "up">>

\* C24 (as claimed): the hierarchy holds all six levels, and the active
\* segment of every level lies inside the interval it subdivides: MAHA inside
\* the frame, every later level inside the active segment of the level above
\* (start >= parent start, end <= parent end), so that the duration never
\* grows from a level to the next.
C24_ActiveSegmentsNested ==
    Done =>
        /\ Len(levels) = 6
        /\ LevelNames = <<"MAHA", "ANTAR", "PRATY", "SOOK", "SUB", "PRANA">>
        /\ \A k \in Levels :
               /\ levels[k].start >= ParentStart(k)
               /\ levels[k].end <= ParentEnd(k)
               /\ levels[k].duration <= ParentSpan(k)

\* C25: for a query inside a frame of positive span (start <= query < end)
\* the active segment of every level contains the query (start <= query <
\* end), so its remaining time is positive and at most its duration, and its
\* remaining fraction is above 0 and at most 1.
C25_QueryInsideEveryLevel ==
    (Done /\ frame_start <= draw_time /\ draw_time < frame_end) =>
        \A k \in Levels :
            /\ levels[k].start <= draw_time
            /\ draw_time < levels[k].end
            /\ 0 < levels[k].remaining
            /\ levels[k].remaining <= levels[k].duration
            /\ RatLt(Rat(0, 1), levels[k].remaining_fraction)
            /\ ~RatLt(Rat(1, 1), levels[k].remaining_fraction)

\* A query strictly inside the frame that sits exactly on the start of the
\* active MAHA segment, which is not the first one: the boundary goes to the
\* later segment at every level.
C25_Witness ==
    /\ Done
    /\ frame_end - frame_start = MaxSpan
    /\ frame_start < draw_time
    /\ draw_time < frame_end
    /\ draw_time = levels[1].start
    /\ ActiveIndex(1) > 1
    /\ levels[6].remaining > 0
    /\ levels[6].remaining_fraction = Rat(1, 1)

\* C26 (as claimed): for a query at or after the frame's end nothing is
\* raised, every level selects the last segment of its list, the end of
\* every level is the frame's end, and every level reports a remaining time
\* of 0 and a remaining fraction of 0.
C26_QueryAfterFrameEnd ==
    (pc # "call" /\ rotate_order_to(start_lord) # "ValueError"
        /\ draw_time >= frame_end) =>
        /\ Done
        /\ \A k \in Levels :
               /\ ActiveIndex(k) = 9
               /\ levels[k].end = frame_end
               /\ levels[k].remaining = 0
               /\ RatEq(levels[k].remaining_fraction, Rat(0, 1))

Returned == run_pc = "returned"

IsPrefix(s, t) == Len(s) <= Len(t) /\ \A i \in 1..Len(s) : s[i] = t[i]

\* What the gate's precheck is said to block: no payload, a restricted task
\* name, or a trend / forecast payload without a profile.
Blocked ==
    \/ run_payload.type = "NoneType"
    \/ lower(run_task_name) \in {"shutdown", "reset", "wipe", "danger"}
    \/ (run_agent_name \in {"trend", "forecast"} /\ "profile" \notin run_payload.keys)

\* C27: run_task goes precheck, handler, postcheck in that order.  The
\* handler is called only after the precheck has run and was ok, so a
\* blocked call never reaches a handler; the postcheck runs only after the
\* handler was called and returned without raising; the returned dict has
\* ok = True only when all three stages ran and succeeded.
C27_PrecheckExecutePostcheck ==
    /\ IsPrefix(stage_calls, <<"precheck", "handler", "postcheck">>)
    /\ Blocked => "handler" \notin Range(stage_calls)
    /\ "handler" \in Range(stage_calls) =>
           /\ stage_calls[1] = "precheck"
           /\ precheck(run_agent_name, run_task_name, run_payload).ok
    /\ "postcheck" \in Range(stage_calls) =>
           /\ stage_calls[2] = "handler"
           /\ agent_task.does = "returns"
           /\ handler_output = Some(agent_task.output)
    /\ (Returned /\ Blocked /\ run_agent_name \in Registry) =>
           /\ stage_calls = <<"precheck">>
           /\ run_returned[1].ok = FALSE
           /\ "stage" \in DOMAIN run_returned[1]
           /\ run_returned[1].stage = "precheck"
    /\ (Returned /\ run_returned[1].ok) =>
           /\ stage_calls = <<"precheck", "handler", "postcheck">>
           /\ ~Blocked
           /\ agent_task.does = "returns"
           /\ postcheck(run_agent_name, run_task_name, run_payload,
                        agent_task.output).ok
    /\ Returned <=> run_returned # None

\* A trend task with a profile whose handler returns an analysis: all three
\* stages ran and the call returned ok.
C27_Witness ==
    /\ Returned
    /\ run_agent_name = "trend"
    /\ run_task_name = "analyze"
    /\ "profile" \in run_payload.keys
    /\ stage_calls = <<"precheck", "handler", "postcheck">>
    /\ run_returned[1].ok
    /\ run_returned[1].result = "value"

PipelineReturned == pipeline_pc = "returned"

\* The ids of a pipeline that leave a result (every one but the disabled).
RECURSIVE WithResult(_)
WithResult(p) ==
    IF p = <<>> THEN <<>>
    ELSE IF registry_agents[Head(p)] = "disabled" THEN WithResult(Tail(p))
    ELSE <<Head(p)>> \o WithResult(Tail(p))

\* The ids of a pipeline whose agent is registered and enabled.
RECURSIVE Runnable(_)
Runnable(p) ==
    IF p = <<>> THEN <<>>
    ELSE IF registry_agents[Head(p)] \in {"missing", "disabled"} THEN Runnable(Tail(p))
    ELSE <<Head(p)>> \o Runnable(Tail(p))

CalledPipeline == IF arg_pipeline = None THEN <<1, 2, 3, 4, 5, 6, 7, 8, 9>> ELSE arg_pipeline[1]

\* C28: an agent that raises or is not registered gets a failed result and
\* does not stop the run: every registered, enabled agent of the pipeline is
\* run, in pipeline order, each on the payload returned by the most recent
\* run that succeeded or on the initial payload when there is none; the
\* results are in pipeline order, one for every agent but the disabled,
\* which leave none.
C28_FailuresDoNotStopTheRun ==
    PipelineReturned =>
        /\ report # None
        /\ [i \in DOMAIN report[1].results |-> report[1].results[i].agent_id]
               = WithResult(CalledPipeline)
        /\ \A i \in DOMAIN report[1].results :
               LET r == report[1].results[i]
               IN  r.success <=> registry_agents[r.agent_id] = "ok"
        /\ [j \in DOMAIN agent_runs |-> agent_runs[j].agent_id]
               = Runnable(CalledPipeline)
        /\ \A j \in DOMAIN agent_runs :
               LET earlier == {i \in 1..(j - 1) : agent_runs[i].returned # None}
               IN  /\ agent_runs[j].returned # None
                       <=> registry_agents[agent_runs[j].agent_id] = "ok"
                   /\ agent_runs[j].received =
                          IF earlier = {}
                          THEN <<>>
                          ELSE agent_runs[CHOOSE i \in earlier :
                                              \A m \in earlier : m <= i].returned[1]

\* Agent 1 succeeds, agent 2 raises, agent 1 is run again: it receives what
\* its own first run returned, and the three results are in pipeline order.
C28_Witness ==
    /\ PipelineReturned
    /\ arg_pipeline = Some(<<1, 2, 1>>)
    /\ registry_agents[1] = "ok"
    /\ registry_agents[2] = "raises"
    /\ Len(agent_runs) = 3
    /\ agent_runs[2].returned = None
    /\ agent_runs[3].received = <<1>>
    /\ ~report[1].results[2].success
    /\ report[1].results[3].success

\* C29 (as claimed): the report has success = True only if every agent
\* listed in mandatory_agents (by default every agent of the pipeline)
\* succeeded, that is, has a result and all its results are successes.
C29_SuccessOnlyIfMandatorySucceeded ==
    (PipelineReturned /\ report[1].success) =>
        \A id \in (IF arg_mandatory = None THEN Range(CalledPipeline)
                                            ELSE arg_mandatory[1]) :
            /\ \E i \in DOMAIN report[1].results :
                   report[1].results[i].agent_id = id
            /\ \A i \in DOMAIN report[1].results :
                   report[1].results[i].agent_id = id => report[1].results[i].success

\* What the first pass of build_snapshots makes of the batch, before any
\* annotation: the records an engine with both switches off returns.
FirstPass ==
    build_snapshots(candles,
                    [config EXCEPT !.track_prev_next = FALSE, !.track_distances = FALSE],
                    HAS_SWISSEPH, moon_lon)

\* C30: the two tracking switches act independently.  With track_prev_next
\* off and track_distances on every record's prev and next are none and both
\* distances are computed; with track_distances off both distances are none
\* on every record and prev / next are linked when track_prev_next is on;
\* with both off every record is as the first pass left it; candle, trend
\* and astro are never touched by the annotation.
C30_SwitchesIndependent ==
    Built =>
        /\ Len(snapshots) = Len(FirstPass)
        /\ \A i \in 1..Len(snapshots) :
               /\ snapshots[i].candle = FirstPass[i].candle
               /\ snapshots[i].trend = FirstPass[i].trend
               /\ snapshots[i].astro = FirstPass[i].astro
               /\ config.track_distances =>
                      /\ SameDistance(snapshots[i].dist_to_next_sub_change,
                                      ExpectedDistance("sub", i))
                      /\ SameDistance(snapshots[i].dist_to_next_ssl_change,
                                      ExpectedDistance("ssl", i))
               /\ ~config.track_distances =>
                      /\ snapshots[i].dist_to_next_sub_change = None
                      /\ snapshots[i].dist_to_next_ssl_change = None
               /\ config.track_prev_next =>
                      /\ snapshots[i].prev
                             = IF i = 1 THEN None ELSE Some(snapshots[i - 1].astro)
                      /\ snapshots[i].next
                             = IF i = Len(snapshots) THEN None
                               ELSE Some(snapshots[i + 1].astro)
               /\ ~config.track_prev_next =>
                      /\ snapshots[i].prev = None
                      /\ snapshots[i].next = None
               /\ (~config.track_prev_next /\ ~config.track_distances) =>
                      /\ snapshots[i].prev = None
                      /\ snapshots[i].next = None
                      /\ snapshots[i].dist_to_next_sub_change = None
                      /\ snapshots[i].dist_to_next_ssl_change = None

\* Links off, distances on: three records, the first with a distance to a
\* later change of sub, none of them linked.
C30_Witness ==
    /\ Built
    /\ ~config.track_prev_next
    /\ config.track_distances
    /\ Len(snapshots) = 3
    /\ snapshots[1].dist_to_next_sub_change # None
    /\ snapshots[2].prev = None
    /\ snapshots[2].next = None
=============================================================================
